---- MODULE Spec2Model ----
(***************************************************************************)
(* The payment-webhook reconciler of the repository: the request handler   *)
(* (exports.handler), its five reconciliation routines and the datastore    *)
(* operations they call, together with the checkout-session creator that    *)
(* produces the metadata the routines read.                                 *)
(*                                                                          *)
(* One user document ("u1") of the datastore and one provider subscription  *)
(* ("sub1") are modelled.  Server timestamps (lastUpdated, lastCreditRefresh*)
(* ...) are wall-clock values no routine reads back and are left out.       *)
(***************************************************************************)
EXTENDS Integers, Sequences, FiniteSets, TLC

\* ------------------------------------------------------------------ values
\* JavaScript undefined / a field missing from the document.
NoVal == "absent"
\* JavaScript null.
Null == "null"

\* Bounds of the model: the requests sent to the webhook, the review credits a
\* user consumes between two grants, the plan switches a customer makes in the
\* provider's portal, the attempts of a datastore transaction, the plan switches
\* of a customer who switches and switches back.
MaxEvents == 3
MaxUsed == 1
MaxSwitches == 1
MaxAttempts == 2
MaxRoundTrip == 2

\* The one real user id, and the ids the provider hands out.
USER == "u1"
SUB_ID == "sub1"
CUSTOMER_ID == "cus1"
SESSION_ID == "cs1"
INVOICE_ID == "in1"
\* subscription.current_period_end of the modelled subscription (epoch seconds).
PERIOD_END == 1

\* subscription.created of the user's subscription, in seconds
CREATED == 1
\* A stored date that is null (0 is no instant the provider reports).
NullDate == 0

\* ------------------------------------------------------- program constants
\* deputy-auth.js 219-225
TIER_CREDITS == [starter |-> 8, pro |-> 20, business |-> 50, free |-> 0]

\* deputy-auth.js 228-232
TIER_CREDITS_ANNUAL_Stale == [starter |-> 96, pro |-> 200, business |-> 600]
TIER_CREDITS_ANNUAL == [starter |-> 96, pro |-> 240, business |-> 600]

\* `TABLE[key] || 0`
Lookup(table, key) == IF key \in DOMAIN table THEN table[key] ELSE 0

\* stripe-checkout.js 7-22 (the keys of PRICE_IDS)
ProductKeys ==
    {"starter_monthly", "starter_annual", "pro_monthly", "pro_annual",
     "business_monthly", "business_annual", "credits_1", "credits_5", "consultation"}

SubscriptionKeys ==
    {"starter_monthly", "starter_annual", "pro_monthly", "pro_annual",
     "business_monthly", "business_annual"}

\* stripe-checkout.js 43-50
TIER_MAPPING ==
    [starter_monthly |-> "starter", starter_annual |-> "starter",
     pro_monthly |-> "pro", pro_annual |-> "pro",
     business_monthly |-> "business", business_annual |-> "business"]

\* stripe-checkout.js 53-63
PRODUCT_TYPE ==
    [starter_monthly |-> "subscription", starter_annual |-> "subscription",
     pro_monthly |-> "subscription", pro_annual |-> "subscription",
     business_monthly |-> "subscription", business_annual |-> "subscription",
     credits_1 |-> "reviewCredits", credits_5 |-> "reviewCredits",
     consultation |-> "consultation"]

\* oauth-exchange.js 264-271
BILLING_CYCLE ==
    [starter_monthly |-> "monthly", starter_annual |-> "annual",
     pro_monthly |-> "monthly", pro_annual |-> "annual",
     business_monthly |-> "monthly", business_annual |-> "annual"]

\* productKey.includes('annual')
IncludesAnnual(productKey) == productKey \in {"starter_annual", "pro_annual", "business_annual"}

\* productKey.includes('monthly') || productKey.includes('annual')
IsSubscriptionKey(productKey) == productKey \in SubscriptionKeys

\* The interval of the provider's price behind a product key.
IntervalOf(productKey) == IF IncludesAnnual(productKey) THEN "year" ELSE "month"

ValidUser_NoSentinel(userId) == userId # NoVal

\* `!userId || userId === 'anonymous'` negated.
ValidUser(userId) == userId # NoVal /\ userId # "anonymous"

\* `periodEnd ? new Date(periodEnd * 1000).toISOString() : null`: the instant in
\* milliseconds, null for a missing or zero period end.
ToISO_Null(seconds) == NullDate

ToISO(seconds) == IF seconds = NullDate THEN NullDate ELSE seconds * 1000

\* ---------------------------------------------------------------- the state
VARIABLES
    env,       \* process configuration: STRIPE_SECRET_KEY, db, STRIPE_WEBHOOK_SECRET
    rec,       \* the datastore document users/u1
    sub,       \* the provider's subscription sub1 (metadata, current price)
    inv,       \* concurrent invocations: position and datastore snapshot of each
    last,      \* the request handled by the latest step, and what the handler did
    delivered  \* the requests the webhook has handled so far

vars == <<env, rec, sub, inv, last, delivered>>

\* The keys of the `credits` map of the document: what `...currentCredits` spreads.
CreditFields ==
    {"tier", "billingCycle", "reviewCredits", "reviewCreditsUsed", "purchasedCredits",
     "subscriptionStatus", "cancelAtPeriodEnd", "subscriptionPeriodEnd",
     "stripeCustomerId", "stripeSubscriptionId", "paymentFailedAt", "lastTransaction"}

\* The document before it exists.  `has` is the set of keys the credits map
\* holds; a key outside `has` is missing and its slot keeps the value below.
\* `tier` stands for the pair subscriptionTier/tier, which every write sets
\* together; topCustomerId is the top-level stripeCustomerId.
EmptyRec ==
    [exists |-> FALSE,
     has |-> {},
     tier |-> NoVal,
     billingCycle |-> NoVal,
     reviewCredits |-> 0,
     reviewCreditsUsed |-> 0,
     purchasedCredits |-> 0,
     subscriptionStatus |-> NoVal,
     cancelAtPeriodEnd |-> FALSE,
     subscriptionPeriodEnd |-> NullDate,
     stripeCustomerId |-> NoVal,
     stripeSubscriptionId |-> NoVal,
     paymentFailedAt |-> FALSE,
     lastTransaction |-> NoVal,
     topCustomerId |-> NoVal,
     transactions |-> <<>>]

\* `currentCredits.field || fallback`
Get_Fallback(doc, f, fallback) == fallback

Get(doc, f, fallback) == IF f \in doc.has THEN doc[f] ELSE fallback

\* userRef.set(update, { merge: true }): the fields the update names are
\* overwritten, every other field is kept, the document is created if missing.
MergeSet_Replace(doc, update) ==
    [f \in DOMAIN doc |->
        IF f = "exists" THEN TRUE
        ELSE IF f = "has" THEN DOMAIN update \cap CreditFields
        ELSE IF f \in DOMAIN update THEN update[f]
        ELSE IF f \in CreditFields THEN EmptyRec[f]
        ELSE doc[f]]

MergeSet(doc, update) ==
    [f \in DOMAIN doc |->
        IF f = "exists" THEN TRUE
        ELSE IF f = "has" THEN doc.has \cup (DOMAIN update \cap CreditFields)
        ELSE IF f \in DOMAIN update THEN update[f]
        ELSE doc[f]]

\* An update that names no field.
NoFields == [f \in {} |-> NoVal]

\* `...currentCredits` of a snapshot: every key the credits map had when read.
Spread(snapshot) == [f \in snapshot.has |-> snapshot[f]]

\* An entry of `transactions`; a field an entry type does not carry is 0 / NoVal.
Entry(type, tier, credits, oldCredits, newCredits) ==
    [type |-> type, tier |-> tier, credits |-> credits,
     oldCredits |-> oldCredits, newCredits |-> newCredits]

\* FieldValue.arrayUnion(entry): entries carry a millisecond timestamp, so a new
\* entry is never equal to an existing one and is appended.
ArrayUnion_Replace(doc, entry) == <<entry>>

ArrayUnion(doc, entry) == Append(doc.transactions, entry)

\* FieldValue.increment(0): keeps a number, creates 0 where the field is missing.
IncrementZero(doc, f) == Get(doc, f, 0)

\* ------------------------------------------------------ datastore operations
\* Each takes the document as stored now (doc) and, where the code reads before
\* it writes, the snapshot it read (snapshot), and gives the document after the
\* write.

\* addPurchasedCredits, the body of the transaction (deputy-auth.js 951-977)
addPurchasedCredits_Overwrite(doc, snapshot, credits, transactionId, stripeCustomerId) ==
    MergeSet(doc,
        [purchasedCredits |-> credits, lastTransaction |-> transactionId,
         transactions |-> ArrayUnion(doc, Entry("credit_pack", NoVal, credits, 0, 0))]
        @@ Spread(snapshot))

addPurchasedCredits(doc, snapshot, credits, transactionId, stripeCustomerId) ==
    MergeSet(doc,
        (IF stripeCustomerId # Null
            THEN [stripeCustomerId |-> stripeCustomerId, topCustomerId |-> stripeCustomerId]
            ELSE NoFields)
        @@ [purchasedCredits |-> Get(snapshot, "purchasedCredits", 0) + credits,
            lastTransaction |-> transactionId,
            transactions |-> ArrayUnion(doc, Entry("credit_pack", NoVal, credits, 0, 0))]
        @@ Spread(snapshot))

\* logTransaction (deputy-auth.js 988-1012)
logTransaction_Credited(doc, type, transactionId, stripeCustomerId) ==
    MergeSet(doc,
        (IF stripeCustomerId # Null THEN [topCustomerId |-> stripeCustomerId] ELSE NoFields)
        @@ [purchasedCredits |-> Get(doc, "purchasedCredits", 0) + 1,
            transactions |-> ArrayUnion(doc, Entry(type, NoVal, 0, 0, 0))])

logTransaction(doc, type, transactionId, stripeCustomerId) ==
    MergeSet(doc,
        (IF stripeCustomerId # Null THEN [topCustomerId |-> stripeCustomerId] ELSE NoFields)
        @@ [transactions |-> ArrayUnion(doc, Entry(type, NoVal, 0, 0, 0))])

\* activateSubscription (deputy-auth.js 1014-1062)
activateSubscription_ResetPurchased(doc, tier, credits, stripeCustomerId, transactionId, periodEnd, subscriptionId, billingCycle) ==
    MergeSet(doc,
        [topCustomerId |-> stripeCustomerId,
         tier |-> tier,
         billingCycle |-> billingCycle,
         reviewCredits |-> credits,
         reviewCreditsUsed |-> 0,
         purchasedCredits |-> 0,
         stripeCustomerId |-> stripeCustomerId,
         stripeSubscriptionId |-> subscriptionId,
         subscriptionStatus |-> "active",
         cancelAtPeriodEnd |-> FALSE,
         subscriptionPeriodEnd |-> ToISO(periodEnd),
         lastTransaction |-> transactionId,
         transactions |-> ArrayUnion(doc, Entry("subscription_started", tier, credits, 0, 0))])

activateSubscription_Additive(doc, tier, credits, stripeCustomerId, transactionId, periodEnd, subscriptionId, billingCycle) ==
    MergeSet(doc,
        [topCustomerId |-> stripeCustomerId,
         tier |-> tier,
         billingCycle |-> billingCycle,
         reviewCredits |-> Get(doc, "reviewCredits", 0) + credits,
         reviewCreditsUsed |-> 0,
         purchasedCredits |-> IncrementZero(doc, "purchasedCredits"),
         stripeCustomerId |-> stripeCustomerId,
         stripeSubscriptionId |-> subscriptionId,
         subscriptionStatus |-> "active",
         cancelAtPeriodEnd |-> FALSE,
         subscriptionPeriodEnd |-> ToISO(periodEnd),
         lastTransaction |-> transactionId,
         transactions |-> ArrayUnion(doc, Entry("subscription_started", tier, credits, 0, 0))])

activateSubscription_NoEntry(doc, tier, credits, stripeCustomerId, transactionId, periodEnd, subscriptionId, billingCycle) ==
    MergeSet(doc,
        [topCustomerId |-> stripeCustomerId,
         tier |-> tier,
         billingCycle |-> billingCycle,
         reviewCredits |-> credits,
         reviewCreditsUsed |-> 0,
         purchasedCredits |-> IncrementZero(doc, "purchasedCredits"),
         stripeCustomerId |-> stripeCustomerId,
         stripeSubscriptionId |-> subscriptionId,
         subscriptionStatus |-> "active",
         cancelAtPeriodEnd |-> FALSE,
         subscriptionPeriodEnd |-> ToISO(periodEnd),
         lastTransaction |-> transactionId])

activateSubscription(doc, tier, credits, stripeCustomerId, transactionId, periodEnd, subscriptionId, billingCycle) ==
    MergeSet(doc,
        [topCustomerId |-> stripeCustomerId,
         tier |-> tier,
         billingCycle |-> billingCycle,
         reviewCredits |-> credits,
         reviewCreditsUsed |-> 0,
         purchasedCredits |-> IncrementZero(doc, "purchasedCredits"),
         stripeCustomerId |-> stripeCustomerId,
         stripeSubscriptionId |-> subscriptionId,
         subscriptionStatus |-> "active",
         cancelAtPeriodEnd |-> FALSE,
         subscriptionPeriodEnd |-> ToISO(periodEnd),
         lastTransaction |-> transactionId,
         transactions |-> ArrayUnion(doc, Entry("subscription_started", tier, credits, 0, 0))])

\* addSubscriptionCredits, the write after the read (deputy-auth.js 1069-1091)
addSubscriptionCredits_KeepStatus(doc, snapshot, credits, transactionId, periodEnd) ==
    MergeSet(doc,
        [reviewCredits |-> credits,
         reviewCreditsUsed |-> 0,
         cancelAtPeriodEnd |-> FALSE,
         subscriptionPeriodEnd |-> ToISO(periodEnd),
         lastTransaction |-> transactionId,
         transactions |-> ArrayUnion(doc, Entry("subscription_renewal", NoVal, credits, 0, 0))]
        @@ Spread(snapshot))

addSubscriptionCredits(doc, snapshot, credits, transactionId, periodEnd) ==
    MergeSet(doc,
        [reviewCredits |-> credits,
         reviewCreditsUsed |-> 0,
         subscriptionStatus |-> "active",
         cancelAtPeriodEnd |-> FALSE,
         subscriptionPeriodEnd |-> ToISO(periodEnd),
         lastTransaction |-> transactionId,
         transactions |-> ArrayUnion(doc, Entry("subscription_renewal", NoVal, credits, 0, 0))]
        @@ Spread(snapshot))

\* downgradeToFree, the write after the read (deputy-auth.js 1106-1131)
downgradeToFree_DropCustomer(doc, snapshot, transactionId) ==
    MergeSet(doc,
        [tier |-> "free",
         reviewCredits |-> 0,
         reviewCreditsUsed |-> 0,
         stripeCustomerId |-> Null,
         stripeSubscriptionId |-> Null,
         subscriptionStatus |-> "canceled",
         cancelAtPeriodEnd |-> FALSE,
         subscriptionPeriodEnd |-> NullDate,
         lastTransaction |-> transactionId,
         transactions |-> ArrayUnion(doc, Entry("subscription_cancelled", NoVal, 0, 0, 0))]
        @@ Spread(snapshot))

downgradeToFree(doc, snapshot, transactionId) ==
    MergeSet(doc,
        [tier |-> "free",
         reviewCredits |-> 0,
         reviewCreditsUsed |-> 0,
         stripeSubscriptionId |-> Null,
         subscriptionStatus |-> "canceled",
         cancelAtPeriodEnd |-> FALSE,
         subscriptionPeriodEnd |-> NullDate,
         lastTransaction |-> transactionId,
         transactions |-> ArrayUnion(doc, Entry("subscription_cancelled", NoVal, 0, 0, 0))]
        @@ Spread(snapshot))

\* ------------------------------------------------------------ the routines
\* A routine's result: the document and the provider's subscription after it,
\* the branch it took, whether its datastore write was applied, whether a
\* provider call or a datastore call failed, and whether it threw to its caller.
Out(doc, s, branch, wrote, stripeFailed, dbFailed, threw) ==
    [rec |-> doc, sub |-> s, branch |-> branch, wrote |-> wrote,
     stripeFailed |-> stripeFailed, dbFailed |-> dbFailed, threw |-> threw]

\* One call of an invocation may fail: a provider retrieval, a provider update,
\* the customer lookup, the notification POST, a datastore read, a datastore write.
Faults ==
    {"none", "stripeRetrieve", "stripeUpdate", "stripeCustomer", "email", "dbRead", "dbWrite"}

\* `billingCycle === 'annual' ? (TIER_CREDITS_ANNUAL[tier] || 0) : (TIER_CREDITS[tier] || 0)`
\* (deputy-auth.js 404-411, 452-454, 679-681)
Grant(tier, billingCycle) ==
    IF billingCycle = "annual"
        THEN Lookup(TIER_CREDITS_ANNUAL, tier)
        ELSE Lookup(TIER_CREDITS, tier)

\* The billing cycle of a price interval, or the one already known
\* (deputy-auth.js 385-390, 595-600).
CycleOfInterval_Known(interval, known) == known

CycleOfInterval(interval, known) ==
    IF interval = "year" THEN "annual"
    ELSE IF interval = "month" THEN "monthly"
    ELSE known

\* handleCheckoutComplete (deputy-auth.js 343-426)
handleCheckoutComplete(doc, s, sess, fault) ==
    IF ~ValidUser(sess.userId) THEN Out(doc, s, "skipUser", FALSE, FALSE, FALSE, FALSE)
    ELSE IF sess.productType = "subscription" THEN
        LET retrieved == sess.subscription # Null /\ fault # "stripeRetrieve"
            updated == retrieved /\ fault # "stripeUpdate"
            fromKey == IF sess.productKey # NoVal /\ IncludesAnnual(sess.productKey)
                       THEN "annual" ELSE "monthly"
            billingCycle == IF retrieved
                            THEN CycleOfInterval(IntervalOf(s.priceKey), fromKey)
                            ELSE fromKey
            subscriptionPeriodEnd == IF retrieved THEN PERIOD_END ELSE NullDate
            subscriptionId == IF retrieved THEN SUB_ID ELSE Null
            credits == Grant(sess.tier, billingCycle)
            s2 == IF updated
                  THEN [s EXCEPT !.userId = sess.userId, !.tier = sess.tier,
                                 !.billingCycle = billingCycle]
                  ELSE s
            stored == fault # "dbWrite"
        IN Out(IF stored
                 THEN activateSubscription(doc, sess.tier, credits, sess.customer, SESSION_ID,
                                           subscriptionPeriodEnd, subscriptionId, billingCycle)
                 ELSE doc,
               s2, "subscription", stored, sess.subscription # Null /\ ~updated, ~stored, FALSE)
    ELSE IF sess.productType = "reviewCredits" THEN
        LET stored == fault \notin {"dbRead", "dbWrite"}
        IN Out(IF stored
                 THEN addPurchasedCredits(doc, doc, sess.reviewCredits, SESSION_ID, sess.customer)
                 ELSE doc,
               s, "reviewCredits", stored, FALSE, ~stored, FALSE)
    ELSE IF sess.productType = "consultation" THEN
        LET stored == fault # "dbWrite"
        IN Out(IF stored THEN logTransaction(doc, "consultation", SESSION_ID, sess.customer)
                         ELSE doc,
               s, "consultation", stored, FALSE, ~stored, FALSE)
    ELSE Out(doc, s, "noProduct", FALSE, FALSE, FALSE, FALSE)

\* handleInvoicePaid (deputy-auth.js 428-461); invoice = [billing_reason, subscription]
handleInvoicePaid_StoredCycle(doc, s, invoice, fault) ==
    IF invoice.billing_reason = "subscription_create"
        THEN Out(doc, s, "initial", FALSE, FALSE, FALSE, FALSE)
    ELSE IF invoice.subscription = Null
        THEN Out(doc, s, "noSubscription", FALSE, FALSE, FALSE, FALSE)
    ELSE IF ~ValidUser(s.userId) THEN Out(doc, s, "skipUser", FALSE, FALSE, FALSE, FALSE)
    ELSE Out(addSubscriptionCredits(doc, doc,
                 Grant(s.tier, Get(doc, "billingCycle", "monthly")), INVOICE_ID, PERIOD_END),
             s, "renewal", TRUE, FALSE, FALSE, FALSE)

handleInvoicePaid_NoSkip(doc, s, invoice, fault) ==
    IF invoice.subscription = Null
        THEN Out(doc, s, "noSubscription", FALSE, FALSE, FALSE, FALSE)
    ELSE IF fault = "stripeRetrieve"
        THEN Out(doc, s, "threw", FALSE, TRUE, FALSE, TRUE)
    ELSE IF ~ValidUser(s.userId) THEN Out(doc, s, "skipUser", FALSE, FALSE, FALSE, FALSE)
    ELSE
        LET billingCycle == IF s.billingCycle # NoVal THEN s.billingCycle ELSE "monthly"
            credits == Grant(s.tier, billingCycle)
            stored == fault \notin {"dbRead", "dbWrite"}
        IN IF credits > 0
             THEN Out(IF stored
                        THEN addSubscriptionCredits(doc, doc, credits, INVOICE_ID, PERIOD_END)
                        ELSE doc,
                      s, "renewal", stored, FALSE, ~stored, FALSE)
             ELSE Out(doc, s, "noGrant", FALSE, FALSE, FALSE, FALSE)

handleInvoicePaid(doc, s, invoice, fault) ==
    IF invoice.billing_reason = "subscription_create"
        THEN Out(doc, s, "initial", FALSE, FALSE, FALSE, FALSE)
    ELSE IF invoice.subscription = Null
        THEN Out(doc, s, "noSubscription", FALSE, FALSE, FALSE, FALSE)
    ELSE IF fault = "stripeRetrieve"
        THEN Out(doc, s, "threw", FALSE, TRUE, FALSE, TRUE)
    ELSE IF ~ValidUser(s.userId) THEN Out(doc, s, "skipUser", FALSE, FALSE, FALSE, FALSE)
    ELSE
        LET billingCycle == IF s.billingCycle # NoVal THEN s.billingCycle ELSE "monthly"
            credits == Grant(s.tier, billingCycle)
            stored == fault \notin {"dbRead", "dbWrite"}
        IN IF credits > 0
             THEN Out(IF stored
                        THEN addSubscriptionCredits(doc, doc, credits, INVOICE_ID, PERIOD_END)
                        ELSE doc,
                      s, "renewal", stored, FALSE, ~stored, FALSE)
             ELSE Out(doc, s, "noGrant", FALSE, FALSE, FALSE, FALSE)

\* handlePaymentFailed (deputy-auth.js 463-493)
handlePaymentFailed(doc, s, invoice, fault) ==
    IF invoice.subscription = Null
        THEN Out(doc, s, "noSubscription", FALSE, FALSE, FALSE, FALSE)
    ELSE IF fault = "stripeRetrieve"
        THEN Out(doc, s, "lookupFailed", FALSE, TRUE, FALSE, FALSE)
    ELSE IF ~ValidUser(s.userId) THEN Out(doc, s, "skipUser", FALSE, FALSE, FALSE, FALSE)
    ELSE
        LET stored == fault # "dbWrite"
        IN Out(IF stored
                 THEN MergeSet(doc, [subscriptionStatus |-> "past_due", paymentFailedAt |-> TRUE])
                 ELSE doc,
               s, "paymentFailed", stored, FALSE, ~stored, FALSE)

\* deputy-auth.js 215-216
REFUND_WINDOW_DAYS == 14

REFUND_WINDOW_MS == REFUND_WINDOW_DAYS * 24 * 60 * 60 * 1000

\* The refund window of the cancellation notice (deputy-auth.js 520-524):
\* `created` is subscription.created in seconds, `now` is Date.now().
RefundNotice_Exclusive(created, now) ==
    LET subscriptionCreatedAt == created * 1000
    IN [daysSinceSubscription |-> (now - subscriptionCreatedAt) \div (24 * 60 * 60 * 1000),
        isRefundEligible |-> (now - subscriptionCreatedAt) < REFUND_WINDOW_MS]

RefundNotice(created, now) ==
    LET subscriptionCreatedAt == created * 1000
    IN [daysSinceSubscription |-> (now - subscriptionCreatedAt) \div (24 * 60 * 60 * 1000),
        isRefundEligible |-> (now - subscriptionCreatedAt) <= REFUND_WINDOW_MS]

handleSubscriptionCancelled_Fatal(doc, s, fault) ==
    IF fault \in {"stripeCustomer", "email"}
        THEN Out(doc, s, "threw", FALSE, fault = "stripeCustomer", FALSE, TRUE)
    ELSE IF ~ValidUser(s.userId)
        THEN Out(doc, s, "skipUser", FALSE, FALSE, FALSE, FALSE)
    ELSE
        LET stored == fault \notin {"dbRead", "dbWrite"}
        IN Out(IF stored THEN downgradeToFree(doc, doc, SUB_ID) ELSE doc,
               s, "cancelled", stored, FALSE, ~stored, FALSE)

\* handleSubscriptionCancelled (deputy-auth.js 495-562); the notification is sent
\* (or fails) first, whoever the user is
handleSubscriptionCancelled(doc, s, fault) ==
    IF ~ValidUser(s.userId)
        THEN Out(doc, s, "skipUser", FALSE, fault = "stripeCustomer", FALSE, FALSE)
    ELSE
        LET stored == fault \notin {"dbRead", "dbWrite"}
        IN Out(IF stored THEN downgradeToFree(doc, doc, SUB_ID) ELSE doc,
               s, "cancelled", stored, fault = "stripeCustomer", ~stored, FALSE)

\* The price-amount fallback table, in cents (deputy-auth.js 617-625); NoVal
\* where the amount is no known price point of the interval.
AmountTier(interval, amount) ==
    IF interval = "year" THEN
        (IF amount = 24900 THEN "starter"
         ELSE IF amount = 44900 THEN "pro"
         ELSE IF amount = 89900 THEN "business"
         ELSE NoVal)
    ELSE IF interval = "month" THEN
        (IF amount = 2900 THEN "starter"
         ELSE IF amount = 4900 THEN "pro"
         ELSE IF amount = 9900 THEN "business"
         ELSE NoVal)
    ELSE NoVal

\* Tier detection from the retrieved price (deputy-auth.js 603-630):
\* price = [interval, metaTier, productTier, amount]; `tier` is the tier of the
\* subscription metadata, kept when nothing matches.
DetectTier_ProductFirst(price, tier) ==
    IF price.productTier # NoVal THEN price.productTier
    ELSE IF price.metaTier # NoVal THEN price.metaTier
    ELSE IF AmountTier(price.interval, price.amount) # NoVal
        THEN AmountTier(price.interval, price.amount)
    ELSE tier

DetectTier(price, tier) ==
    IF price.metaTier # NoVal THEN price.metaTier
    ELSE IF price.productTier # NoVal THEN price.productTier
    ELSE IF AmountTier(price.interval, price.amount) # NoVal
        THEN AmountTier(price.interval, price.amount)
    ELSE tier

\* The tier and billing cycle handleSubscriptionUpdated works with after the
\* detection block (deputy-auth.js 586-648), and the metadata it leaves at the
\* provider: [tier, billingCycle, sub, failed].
DetectPlan(s, price, fault) ==
    LET tier == s.tier
        billingCycle == IF s.billingCycle # NoVal THEN s.billingCycle ELSE "monthly"
        detectedBillingCycle == CycleOfInterval(price.interval, billingCycle)
        detectedTier == DetectTier(price, tier)
        changed == (detectedTier # NoVal /\ detectedTier # tier)
                   \/ detectedBillingCycle # billingCycle
    IN IF fault = "stripeRetrieve"
         THEN [tier |-> tier, billingCycle |-> billingCycle, sub |-> s, failed |-> TRUE]
       ELSE IF changed /\ fault = "stripeUpdate"
         THEN [tier |-> tier, billingCycle |-> billingCycle, sub |-> s, failed |-> TRUE]
       ELSE IF changed
         THEN [tier |-> IF detectedTier # NoVal THEN detectedTier ELSE tier,
               billingCycle |-> detectedBillingCycle,
               sub |-> [s EXCEPT !.tier = IF detectedTier # NoVal THEN detectedTier ELSE tier,
                                 !.billingCycle = detectedBillingCycle],
               failed |-> FALSE]
       ELSE [tier |-> tier, billingCycle |-> billingCycle, sub |-> s, failed |-> FALSE]

\* The plan-switch write (deputy-auth.js 678-719).
PlanSwitch_Inverted(doc, snapshot, tier, billingCycle) ==
    LET currentTier == Get(snapshot, "tier", "free")
        currentBillingCycle == Get(snapshot, "billingCycle", "monthly")
        newCredits == Grant(tier, billingCycle)
        oldCredits == Grant(currentTier, currentBillingCycle)
        isUpgrade == newCredits < oldCredits
    IN MergeSet(doc,
        [tier |-> tier,
         billingCycle |-> billingCycle,
         reviewCredits |-> newCredits,
         reviewCreditsUsed |-> 0,
         subscriptionStatus |-> "active",
         cancelAtPeriodEnd |-> FALSE,
         subscriptionPeriodEnd |-> ToISO(PERIOD_END),
         transactions |-> ArrayUnion(doc,
             Entry(IF isUpgrade THEN "plan_upgrade" ELSE "plan_downgrade",
                   tier, 0, oldCredits, newCredits))]
        @@ Spread(snapshot))

PlanSwitch(doc, snapshot, tier, billingCycle) ==
    LET currentTier == Get(snapshot, "tier", "free")
        currentBillingCycle == Get(snapshot, "billingCycle", "monthly")
        newCredits == Grant(tier, billingCycle)
        oldCredits == Grant(currentTier, currentBillingCycle)
        isUpgrade == newCredits > oldCredits
    IN MergeSet(doc,
        [tier |-> tier,
         billingCycle |-> billingCycle,
         reviewCredits |-> newCredits,
         reviewCreditsUsed |-> 0,
         subscriptionStatus |-> "active",
         cancelAtPeriodEnd |-> FALSE,
         subscriptionPeriodEnd |-> ToISO(PERIOD_END),
         transactions |-> ArrayUnion(doc,
             Entry(IF isUpgrade THEN "plan_upgrade" ELSE "plan_downgrade",
                   tier, 0, oldCredits, newCredits))]
        @@ Spread(snapshot))

\* `tierChanged || billingCycleChanged` (deputy-auth.js 668-673)
PlanChanged_TierOnly(snapshot, tier, billingCycle) ==
    LET currentTier == Get(snapshot, "tier", "free")
    IN tier # NoVal /\ currentTier # tier /\ currentTier # "free"

PlanChanged_FromFree(snapshot, tier, billingCycle) ==
    LET currentTier == Get(snapshot, "tier", "free")
        currentBillingCycle == Get(snapshot, "billingCycle", "monthly")
    IN \/ (tier # NoVal /\ currentTier # tier)
       \/ currentBillingCycle # billingCycle

PlanChanged(snapshot, tier, billingCycle) ==
    LET currentTier == Get(snapshot, "tier", "free")
        currentBillingCycle == Get(snapshot, "billingCycle", "monthly")
    IN \/ (tier # NoVal /\ currentTier # tier /\ currentTier # "free")
       \/ (currentBillingCycle # billingCycle /\ currentTier # "free")

\* handleSubscriptionUpdated (deputy-auth.js 564-807);
\* ev = [status, cancel_at_period_end], the event's subscription object
handleSubscriptionUpdated(doc, s, ev, price, fault) ==
    IF ~ValidUser(s.userId) THEN Out(doc, s, "skipUser", FALSE, FALSE, FALSE, FALSE)
    ELSE
        LET plan == DetectPlan(s, price, fault)
            readable == fault # "dbRead"
            writable == fault # "dbWrite"
            switch == /\ ev.status = "active" /\ ~ev.cancel_at_period_end
                      /\ readable /\ PlanChanged(doc, plan.tier, plan.billingCycle)
            stripeFailed == plan.failed \/ (ev.cancel_at_period_end /\ fault = "stripeCustomer")
        IN IF switch /\ writable
             THEN Out(PlanSwitch(doc, doc, plan.tier, plan.billingCycle), plan.sub,
                      "planSwitch", TRUE, stripeFailed, FALSE, FALSE)
           ELSE IF ev.cancel_at_period_end
             THEN (IF writable
                     THEN Out(MergeSet(doc, [cancelAtPeriodEnd |-> TRUE,
                                             subscriptionStatus |-> "canceling",
                                             subscriptionPeriodEnd |-> ToISO(PERIOD_END)]),
                              plan.sub, "cancelScheduled", TRUE, stripeFailed, FALSE, FALSE)
                     ELSE Out(doc, plan.sub, "threw", FALSE, stripeFailed, TRUE, TRUE))
           ELSE IF ev.status = "active" /\ ~readable
             THEN Out(doc, plan.sub, "threw", FALSE, stripeFailed, TRUE, TRUE)
           ELSE IF ev.status = "active" /\ Get(doc, "cancelAtPeriodEnd", FALSE) = TRUE
             THEN (IF writable
                     THEN Out(MergeSet(doc, [cancelAtPeriodEnd |-> FALSE,
                                             subscriptionStatus |-> "active",
                                             subscriptionPeriodEnd |-> ToISO(PERIOD_END)]),
                              plan.sub, "reactivated", TRUE, stripeFailed, FALSE, FALSE)
                     ELSE Out(doc, plan.sub, "threw", FALSE, stripeFailed, TRUE, TRUE))
           ELSE IF ev.status \in {"past_due", "unpaid"}
             THEN (IF writable
                     THEN Out(MergeSet(doc, [subscriptionStatus |-> ev.status]),
                              plan.sub, "paymentIssue", TRUE, stripeFailed, FALSE, FALSE)
                     ELSE Out(doc, plan.sub, "threw", FALSE, stripeFailed, TRUE, TRUE))
           ELSE Out(doc, plan.sub, "noChange", FALSE, stripeFailed, switch /\ ~writable, FALSE)

\* The default branch of the dispatch (deputy-auth.js 325-326): the type is
\* logged, nothing else happens.
handleDefault_Cancel(doc, s) ==
    Out(downgradeToFree(doc, doc, SUB_ID), s, "unhandled", TRUE, FALSE, FALSE, FALSE)

handleDefault(doc, s) == Out(doc, s, "unhandled", FALSE, FALSE, FALSE, FALSE)

\* ------------------------------------------------------------- the provider
\* stripe-checkout.js 25-40
REVIEW_CREDIT_AMOUNTS ==
    [starter_monthly |-> 8, starter_annual |-> 8, pro_monthly |-> 20, pro_annual |-> 20,
     business_monthly |-> 50, business_annual |-> 50,
     credits_1 |-> 1, credits_5 |-> 5, consultation |-> 0]

\* The provider's subscription: the product key it was bought with, its
\* metadata (userId, tier, billingCycle), the product key of its current price
\* and the plan switches made so far.
NoSub ==
    [exists |-> FALSE, productKey |-> NoVal, userId |-> NoVal, tier |-> NoVal,
     billingCycle |-> NoVal, priceKey |-> NoVal, switches |-> 0]

\* `userId || 'anonymous'`
OrAnonymous_Absent(userId) == userId

OrAnonymous(userId) == IF userId = NoVal THEN "anonymous" ELSE userId

\* The completed session of a checkout: the metadata the checkout handler
\* builds (stripe-checkout.js 90-105), the subscription and the customer.
SessionOf(productKey, userId, customer) ==
    [userId |-> OrAnonymous(userId),
     productKey |-> productKey,
     productType |-> PRODUCT_TYPE[productKey],
     reviewCredits |-> REVIEW_CREDIT_AMOUNTS[productKey],
     tier |-> IF productKey \in DOMAIN TIER_MAPPING THEN TIER_MAPPING[productKey] ELSE "free",
     subscription |-> IF IsSubscriptionKey(productKey) THEN SUB_ID ELSE Null,
     customer |-> customer]

\* subscription_data.metadata (stripe-checkout.js 111-119 carries no billing
\* cycle, oauth-exchange.js 324-333 carries BILLING_CYCLE[productKey]).
SubscriptionOf(productKey, userId, withCycle) ==
    [exists |-> TRUE,
     productKey |-> productKey,
     userId |-> OrAnonymous(userId),
     tier |-> TIER_MAPPING[productKey],
     billingCycle |-> IF withCycle THEN BILLING_CYCLE[productKey] ELSE NoVal,
     priceKey |-> productKey,
     switches |-> 0]

\* A session and a subscription that no checkout handler of the application
\* created: their metadata is empty.
ForeignSession ==
    [userId |-> NoVal, productKey |-> NoVal, productType |-> NoVal, reviewCredits |-> 0,
     tier |-> NoVal, subscription |-> SUB_ID, customer |-> CUSTOMER_ID]

ForeignSubscription(priceKey) ==
    [NoSub EXCEPT !.exists = TRUE, !.priceKey = priceKey]

\* The products paid once.
OneTimeKeys == ProductKeys \ SubscriptionKeys

\* The sessions whose completion the provider may deliver within a scope: the
\* one of the subscription it holds, and one-time purchases.
Sessions(s, sc) ==
    (IF ~s.exists THEN {}
     ELSE IF s.productKey = NoVal THEN {ForeignSession}
     ELSE {SessionOf(s.productKey, s.userId, CUSTOMER_ID)})
    \cup {SessionOf(k, u, c) : k \in sc.oneTime, u \in sc.users, c \in sc.customers}

\* -------------------------------------------------------------- the handler
\* The request handled by the latest step and what exports.handler did with it.
\* Of the request: the event type, the signature header, the user id of the
\* event's session or subscription metadata, the product type (checkout) or
\* billing reason (invoice), the call that failed, the subscription status and
\* cancel_at_period_end (subscription updated), metadata.reviewCredits, and of
\* the price a subscription-updated event names the tier in its metadata, the
\* tier in its product's metadata and its unit_amount, and of a cancellation
\* the subscription's `created` (seconds) and the clock (milliseconds).  Of the
\* handling: the branch the routine took, whether its datastore write was
\* applied, whether it threw to the handler, the response (status code,
\* `received`, `error`), and what the cancellation notice says of the refund
\* window.
NoRequest ==
    [type |-> "none", sig |-> "none", userId |-> NoVal, kind |-> NoVal, fault |-> "none",
     status |-> NoVal, cape |-> FALSE, credits |-> 0,
     priceMeta |-> NoVal, productMeta |-> NoVal, amount |-> 0,
     created |-> 0, now |-> 0]

NoLast ==
    NoRequest @@
    [branch |-> "none", wrote |-> FALSE, threw |-> FALSE,
     http |-> 0, received |-> FALSE, error |-> FALSE,
     isRefundEligible |-> FALSE, daysSinceSubscription |-> 0]

\* A request the handler answered before it dispatched any event.
Rejected(branch, http, received, error, sig) ==
    [NoLast EXCEPT !.type = "request", !.sig = sig, !.branch = branch, !.http = http,
                   !.received = received, !.error = error]

\* An event as the dispatch sees it.
Request(type, sig, userId, kind, fault, ev, credits) ==
    [type |-> type, sig |-> sig, userId |-> userId, kind |-> kind, fault |-> fault,
     status |-> ev.status, cape |-> ev.cancel_at_period_end, credits |-> credits,
     priceMeta |-> ev.priceMeta, productMeta |-> ev.productMeta, amount |-> ev.amount,
     created |-> 0, now |-> 0]

\* The event types the dispatch has a case for (deputy-auth.js 278-330).
EventTypes ==
    {"checkout.session.completed", "invoice.paid", "invoice.payment_failed",
     "customer.subscription.deleted", "customer.subscription.updated"}

\* The configuration checks of exports.handler (deputy-auth.js 249-257).
Configured_KeyOnly == env.stripeKey

Configured == env.stripeKey /\ env.db

\* The signature step (deputy-auth.js 259-273): sig is "none" (no header),
\* "valid" or "invalid".
Verify_Lenient(sig) ==
    IF env.secret /\ sig = "valid" THEN "passed" ELSE "skipped"

Verify(sig) ==
    IF env.secret /\ sig # "none"
        THEN (IF sig = "valid" THEN "passed" ELSE "failed")
        ELSE "skipped"

Signatures == {"none", "valid", "invalid"}

\* The response after the dispatch (deputy-auth.js 278-336): a routine's
\* exception is caught by the try of its case, so the answer is always the same.
Respond_Propagate(req, o) ==
    req @@
    [branch |-> o.branch, wrote |-> o.wrote, threw |-> o.threw,
     http |-> IF o.threw THEN 500 ELSE 200, received |-> ~o.threw, error |-> o.threw,
     isRefundEligible |-> FALSE, daysSinceSubscription |-> 0]

Respond(req, o) ==
    req @@
    [branch |-> o.branch, wrote |-> o.wrote, threw |-> o.threw,
     http |-> 200, received |-> TRUE, error |-> FALSE,
     isRefundEligible |-> FALSE, daysSinceSubscription |-> 0]

\* An event that is no subscription object.
NoEv ==
    [status |-> NoVal, cancel_at_period_end |-> FALSE,
     priceMeta |-> NoVal, productMeta |-> NoVal, amount |-> 0]

\* The user id of the metadata of the subscription an invoice names.
UserOf(s, subscription) == IF subscription = Null THEN NoVal ELSE s.userId

\* An invocation of the handler that runs beside another: where it stands in
\* addPurchasedCredits, purchasedCredits when it was invoked, the document its
\* transaction read, the attempts of the transaction so far.
NoInvocation ==
    [pc |-> "idle", before |-> 0, snapshot |-> EmptyRec, attempts |-> 0]

Procs == {1, 2}

Init ==
    /\ env \in [stripeKey : BOOLEAN, db : BOOLEAN, secret : BOOLEAN]
    /\ rec = EmptyRec
    /\ sub = NoSub
    /\ inv = [p \in Procs |-> NoInvocation]
    /\ last = NoLast
    /\ delivered = 0

\* ----- scopes
\* A scope names the inputs the environment draws from: the subscription
\* products and one-time products bought, the user ids and customers of the
\* checkouts, whether the checkout handler puts the billing cycle into the
\* subscription metadata, the signature headers sent, the calls that may fail,
\* of subscription-updated events the status, cancel_at_period_end and
\* the tier the price's metadata and its product's metadata carry, whether
\* the price's amount is on the fallback table, the time between the creation
\* of the subscription and the handling of its cancellation (milliseconds),
\* and the plan switches the customer makes in the portal.
PaidTiers == {"starter", "pro", "business"}

\* unit_amount of the six subscription prices, in cents (deputy-auth.js 618-624).
UnitAmount(productKey) ==
    CASE productKey = "starter_annual" -> 24900
      [] productKey = "pro_annual" -> 44900
      [] productKey = "business_annual" -> 89900
      [] productKey = "starter_monthly" -> 2900
      [] productKey = "pro_monthly" -> 4900
      [] productKey = "business_monthly" -> 9900

\* An amount that is no price point of the table (a discounted price).
OFF_TABLE_AMOUNT == 100

\* The prices the provider may hold behind a product key: its interval, the
\* tier its metadata and its product's metadata name (NoVal where they name
\* none), its amount on or off the table.
Prices(productKey, sc) ==
    [interval : {IntervalOf(productKey)},
     metaTier : sc.priceMeta,
     productTier : sc.productMeta,
     amount : {IF m THEN UnitAmount(productKey) ELSE OFF_TABLE_AMOUNT : m \in sc.onTable}]

\* Every call fails or none, every signature header, every kind of user id.
Contract ==
    [keys |-> {"pro_monthly"},
     oneTime |-> {"credits_1", "consultation"},
     users |-> {USER, NoVal},
     customers |-> {CUSTOMER_ID},
     withCycle |-> {TRUE},
     foreign |-> {TRUE},
     sigs |-> Signatures,
     faults |-> Faults,
     statuses |-> {"active", "past_due"},
     capes |-> BOOLEAN,
     priceMeta |-> {NoVal},
     productMeta |-> {NoVal},
     onTable |-> {TRUE},
     ages |-> {0},
     switches |-> MaxSwitches]

\* Every product of the catalogue and both checkout handlers, signed events,
\* a failing subscription retrieval or datastore write.
Ledger ==
    [keys |-> SubscriptionKeys,
     oneTime |-> OneTimeKeys,
     users |-> {USER},
     customers |-> {CUSTOMER_ID, Null},
     withCycle |-> BOOLEAN,
     foreign |-> {},
     sigs |-> {"valid"},
     faults |-> {"none", "stripeRetrieve", "dbWrite"},
     statuses |-> {"active", "past_due"},
     capes |-> BOOLEAN,
     priceMeta |-> {NoVal},
     productMeta |-> {NoVal},
     onTable |-> {TRUE},
     ages |-> {0},
     switches |-> MaxSwitches]

\* Plans of two tiers and both cycles, one checkout handler or the other,
\* signed events, no failing call but the subscription retrieval.
Lifecycle ==
    [keys |-> {"starter_monthly", "pro_monthly", "pro_annual"},
     oneTime |-> {"credits_1"},
     users |-> {USER},
     customers |-> {CUSTOMER_ID},
     withCycle |-> BOOLEAN,
     foreign |-> {},
     sigs |-> {"valid"},
     faults |-> {"none", "stripeRetrieve"},
     statuses |-> {"active", "past_due"},
     capes |-> BOOLEAN,
     priceMeta |-> {NoVal},
     productMeta |-> {NoVal},
     onTable |-> {TRUE},
     ages |-> {0},
     switches |-> MaxSwitches]

\* Every subscription plan, switched in the portal and switched back; an active
\* subscription, no failing call.
Switching ==
    [keys |-> SubscriptionKeys,
     oneTime |-> {},
     users |-> {USER},
     customers |-> {CUSTOMER_ID},
     withCycle |-> BOOLEAN,
     foreign |-> {},
     sigs |-> {"valid"},
     faults |-> {"none"},
     statuses |-> {"active"},
     capes |-> {FALSE},
     priceMeta |-> {NoVal},
     productMeta |-> {NoVal},
     onTable |-> {TRUE},
     ages |-> {0},
     switches |-> MaxRoundTrip]

\* Prices that name a tier in their metadata, in their product's metadata, by
\* their amount, or not at all; monthly plans of the three tiers, switched
\* once; an active subscription, no failing call.
Detection ==
    [keys |-> {"starter_monthly", "pro_monthly", "business_monthly"},
     oneTime |-> {},
     users |-> {USER},
     customers |-> {CUSTOMER_ID},
     withCycle |-> {TRUE},
     foreign |-> {},
     sigs |-> {"valid"},
     faults |-> {"none"},
     statuses |-> {"active"},
     capes |-> {FALSE},
     priceMeta |-> {NoVal, "starter"},
     productMeta |-> {NoVal, "pro"},
     onTable |-> BOOLEAN,
     ages |-> {0},
     switches |-> MaxSwitches]

\* The times between creation and cancellation around the day boundaries and
\* the end of the refund window.
RefundAges ==
    {0, 24 * 60 * 60 * 1000 - 1, 24 * 60 * 60 * 1000,
     REFUND_WINDOW_MS - 1, REFUND_WINDOW_MS, REFUND_WINDOW_MS + 1,
     REFUND_WINDOW_MS + 24 * 60 * 60 * 1000 - 1, REFUND_WINDOW_MS + 24 * 60 * 60 * 1000}

\* Cancellations at those times, with the email service answering or not.
Refund ==
    [keys |-> {"starter_annual", "pro_monthly"},
     oneTime |-> {},
     users |-> {USER, NoVal},
     customers |-> {CUSTOMER_ID},
     withCycle |-> {TRUE},
     foreign |-> {},
     sigs |-> {"valid"},
     faults |-> {"none", "stripeCustomer", "email"},
     statuses |-> {"active"},
     capes |-> {TRUE},
     priceMeta |-> {NoVal},
     productMeta |-> {NoVal},
     onTable |-> {TRUE},
     ages |-> RefundAges,
     switches |-> 0]

\* ----- the environment
\* stripe-checkout.js / oauth-exchange.js exports.handler for a subscription
\* product, followed by the customer's payment: the provider holds the
\* subscription with the metadata of subscription_data.
CreateSubscription(sc) ==
    /\ ~sub.exists
    /\ \E productKey \in sc.keys, userId \in sc.users, withCycle \in sc.withCycle :
        sub' \in {SubscriptionOf(productKey, userId, withCycle)}
                 \cup {ForeignSubscription(productKey) : f \in sc.foreign}
    /\ last' = NoLast
    /\ UNCHANGED <<env, rec, inv, delivered>>

\* The customer switches plan in the provider's portal (the portal session of
\* stripe-portal): the subscription's price changes, its metadata does not.
PortalSwitchPlan(sc) ==
    /\ sub.exists
    /\ sub.switches < sc.switches
    /\ \E productKey \in sc.keys \ {sub.priceKey} :
        sub' = [sub EXCEPT !.priceKey = productKey, !.switches = @ + 1]
    /\ last' = NoLast
    /\ UNCHANGED <<env, rec, inv, delivered>>

\* The application consumes a review credit (the consumption counter of the
\* entitlement record).
UseReviewCredit ==
    /\ "reviewCredits" \in rec.has
    /\ rec.reviewCreditsUsed < MaxUsed
    /\ rec.reviewCreditsUsed < rec.reviewCredits
    /\ rec' = MergeSet(rec, [reviewCreditsUsed |-> rec.reviewCreditsUsed + 1])
    /\ last' = NoLast
    /\ UNCHANGED <<env, sub, inv, delivered>>

\* ----- exports.handler, one action per kind of request
NotPost ==
    /\ delivered < MaxEvents
    /\ last' = Rejected("notPost", 405, FALSE, FALSE, "none")
    /\ delivered' = delivered + 1
    /\ UNCHANGED <<env, rec, sub, inv>>

NotConfigured(sc) ==
    /\ delivered < MaxEvents
    /\ ~Configured
    /\ \E sig \in sc.sigs :
        last' = Rejected("notConfigured", 200, TRUE, TRUE, sig)
    /\ delivered' = delivered + 1
    /\ UNCHANGED <<env, rec, sub, inv>>

\* constructEvent throws on a signature that does not match.
BadSignature(sc) ==
    /\ delivered < MaxEvents
    /\ Configured
    /\ \E sig \in sc.sigs :
        /\ Verify(sig) = "failed"
        /\ last' = Rejected("badSignature", 400, FALSE, TRUE, sig)
    /\ delivered' = delivered + 1
    /\ UNCHANGED <<env, rec, sub, inv>>

\* JSON.parse throws on a body that is not JSON.
Malformed(sc) ==
    /\ delivered < MaxEvents
    /\ Configured
    /\ \E sig \in sc.sigs :
        /\ Verify(sig) = "skipped"
        /\ last' = Rejected("malformed", 400, FALSE, TRUE, sig)
    /\ delivered' = delivered + 1
    /\ UNCHANGED <<env, rec, sub, inv>>

\* JSON.parse gives null for the body `null`; `stripeEvent.type` (line 275,
\* outside every try) then throws and the invocation fails.
NullBody(sc) ==
    /\ delivered < MaxEvents
    /\ Configured
    /\ \E sig \in sc.sigs :
        /\ Verify(sig) = "skipped"
        /\ last' = Rejected("uncaught", 500, FALSE, FALSE, sig)
    /\ delivered' = delivered + 1
    /\ UNCHANGED <<env, rec, sub, inv>>

UnhandledEvent(sc) ==
    /\ delivered < MaxEvents
    /\ Configured
    /\ \E sig \in sc.sigs :
        /\ Verify(sig) # "failed"
        /\ LET o == handleDefault(rec, sub)
           IN /\ rec' = o.rec
              /\ sub' = o.sub
              /\ last' = Respond(Request("other", sig, NoVal, NoVal, "none", NoEv, 0), o)
    /\ delivered' = delivered + 1
    /\ UNCHANGED <<env, inv>>

CheckoutCompleted(sc) ==
    /\ Configured
    /\ delivered < MaxEvents
    /\ \E sig \in sc.sigs, sess \in Sessions(sub, sc),
          fault \in sc.faults \cap {"none", "stripeRetrieve", "stripeUpdate", "dbRead", "dbWrite"} :
        /\ Verify(sig) # "failed"
        /\ LET o == handleCheckoutComplete(rec, sub, sess, fault)
           IN /\ rec' = o.rec
              /\ sub' = o.sub
              /\ last' = Respond(Request("checkout.session.completed", sig, sess.userId,
                                         sess.productType, fault, NoEv,
                                         sess.reviewCredits), o)
    /\ delivered' = delivered + 1
    /\ UNCHANGED <<env, inv>>

InvoicePaid(sc) ==
    /\ Configured
    /\ delivered < MaxEvents
    /\ \E sig \in sc.sigs,
          fault \in sc.faults \cap {"none", "stripeRetrieve", "dbRead", "dbWrite"},
          reason \in {"subscription_create", "subscription_cycle"},
          subscription \in {SUB_ID, Null} :
        /\ Verify(sig) # "failed"
        /\ subscription = SUB_ID => sub.exists
        /\ LET o == handleInvoicePaid(rec, sub,
                        [billing_reason |-> reason, subscription |-> subscription], fault)
           IN /\ rec' = o.rec
              /\ sub' = o.sub
              /\ last' = Respond(Request("invoice.paid", sig, UserOf(sub, subscription),
                                         reason, fault, NoEv, 0), o)
    /\ delivered' = delivered + 1
    /\ UNCHANGED <<env, inv>>

PaymentFailed(sc) ==
    /\ Configured
    /\ delivered < MaxEvents
    /\ \E sig \in sc.sigs, fault \in sc.faults \cap {"none", "stripeRetrieve", "dbWrite"},
          subscription \in {SUB_ID, Null} :
        /\ Verify(sig) # "failed"
        /\ subscription = SUB_ID => sub.exists
        /\ LET o == handlePaymentFailed(rec, sub,
                        [billing_reason |-> "subscription_cycle", subscription |-> subscription],
                        fault)
           IN /\ rec' = o.rec
              /\ sub' = o.sub
              /\ last' = Respond(Request("invoice.payment_failed", sig,
                                         UserOf(sub, subscription),
                                         "subscription_cycle", fault, NoEv, 0), o)
    /\ delivered' = delivered + 1
    /\ UNCHANGED <<env, inv>>

SubscriptionCancelled(sc) ==
    /\ Configured
    /\ delivered < MaxEvents
    /\ sub.exists
    /\ \E sig \in sc.sigs,
          fault \in sc.faults \cap {"none", "stripeCustomer", "email", "dbRead", "dbWrite"},
          age \in sc.ages :
        /\ Verify(sig) # "failed"
        /\ LET o == handleSubscriptionCancelled(rec, sub, fault)
               now == CREATED * 1000 + age
               notice == RefundNotice(CREATED, now)
           IN /\ rec' = o.rec
              /\ sub' = o.sub
              /\ last' = [Respond(Request("customer.subscription.deleted", sig, sub.userId,
                                          NoVal, fault, NoEv, 0), o)
                            EXCEPT !.created = CREATED,
                                   !.now = now,
                                   !.isRefundEligible = notice.isRefundEligible,
                                   !.daysSinceSubscription = notice.daysSinceSubscription]
    /\ delivered' = delivered + 1
    /\ UNCHANGED <<env, inv>>

SubscriptionUpdated(sc) ==
    /\ Configured
    /\ delivered < MaxEvents
    /\ sub.exists
    /\ \E sig \in sc.sigs, price \in Prices(sub.priceKey, sc),
          fault \in sc.faults \cap {"none", "stripeRetrieve", "stripeUpdate", "stripeCustomer",
                                    "dbRead", "dbWrite"},
          status \in sc.statuses, cancel_at_period_end \in sc.capes :
        /\ Verify(sig) # "failed"
        /\ LET ev == [status |-> status, cancel_at_period_end |-> cancel_at_period_end,
                      priceMeta |-> price.metaTier, productMeta |-> price.productTier,
                      amount |-> price.amount]
               o == handleSubscriptionUpdated(rec, sub, ev, price, fault)
           IN /\ rec' = o.rec
              /\ sub' = o.sub
              /\ last' = Respond(Request("customer.subscription.updated", sig, sub.userId,
                                         NoVal, fault, ev, 0), o)
    /\ delivered' = delivered + 1
    /\ UNCHANGED <<env, inv>>

\* The requests the handler answers without running a routine.
Refusals(sc) ==
    \/ NotPost
    \/ NotConfigured(sc)
    \/ BadSignature(sc)
    \/ Malformed(sc)
    \/ NullBody(sc)
    \/ UnhandledEvent(sc)

\* The five reconciliation routines behind the dispatch.
Routines(sc) ==
    \/ CheckoutCompleted(sc)
    \/ InvoicePaid(sc)
    \/ PaymentFailed(sc)
    \/ SubscriptionCancelled(sc)
    \/ SubscriptionUpdated(sc)

\* The handler under every configuration, signature and failure.
Next ==
    \/ CreateSubscription(Contract)
    \/ Refusals(Contract)
    \/ Routines(Contract)

Spec == Init /\ [][Next]_vars

\* The webhook fully configured.
InitConfigured ==
    /\ Init
    /\ env = [stripeKey |-> TRUE, db |-> TRUE, secret |-> TRUE]

\* The catalogue: every product, bought once and reconciled.
NextCatalogue ==
    \/ CreateSubscription(Ledger)
    \/ UseReviewCredit
    \/ Routines(Ledger)

SpecCatalogue == InitConfigured /\ [][NextCatalogue]_vars

\* The life of a subscription whose plan the customer switches.
NextLifecycle ==
    \/ CreateSubscription(Lifecycle)
    \/ PortalSwitchPlan(Lifecycle)
    \/ UseReviewCredit
    \/ Routines(Lifecycle)

SpecLifecycle == InitConfigured /\ [][NextLifecycle]_vars

\* A subscription whose plan is switched there and back.
NextSwitching ==
    \/ CreateSubscription(Switching)
    \/ PortalSwitchPlan(Switching)
    \/ Routines(Switching)

SpecSwitching == InitConfigured /\ [][NextSwitching]_vars

\* A subscription whose price names its tier in one way or another.
NextDetection ==
    \/ CreateSubscription(Detection)
    \/ PortalSwitchPlan(Detection)
    \/ Routines(Detection)

SpecDetection == InitConfigured /\ [][NextDetection]_vars

\* Subscriptions cancelled at different ages.
NextRefund ==
    \/ CreateSubscription(Refund)
    \/ Routines(Refund)

SpecRefund == InitConfigured /\ [][NextRefund]_vars

\* ----- two invocations side by side
\* The checkout-completed event of a 1-credit pack of USER, as the provider
\* delivers it and as the dispatch sees it.
PackSession == SessionOf("credits_1", USER, CUSTOMER_ID)

PackRequest ==
    Request("checkout.session.completed", "valid", PackSession.userId,
            PackSession.productType, "none", NoEv, PackSession.reviewCredits)

\* The document after an earlier purchase of the 5-credit pack.
PackBought ==
    addPurchasedCredits(EmptyRec, EmptyRec, REVIEW_CREDIT_AMOUNTS["credits_5"],
                        SESSION_ID, CUSTOMER_ID)

\* db.runTransaction (deputy-auth.js 950): the commit of a transaction whose
\* document changed since transaction.get read it is refused, and the
\* transaction function runs again.  (The server SDK reaches the same
\* serial outcomes by locking the document it read.)
Conflict_Never(p) == FALSE

Conflict(p) == inv[p].snapshot # rec

\* exports.handler down to the call of addPurchasedCredits.
BeginPack(p) ==
    /\ Configured
    /\ delivered < MaxEvents
    /\ inv[p].pc = "idle"
    /\ ValidUser(PackSession.userId)
    /\ inv' = [inv EXCEPT ![p] = [NoInvocation EXCEPT
                   !.pc = "read", !.before = Get(rec, "purchasedCredits", 0)]]
    /\ delivered' = delivered + 1
    /\ last' = NoLast
    /\ UNCHANGED <<env, rec, sub>>

\* transaction.get(userRef) (deputy-auth.js 951)
TxRead(p) ==
    /\ inv[p].pc = "read"
    /\ inv' = [inv EXCEPT ![p].pc = "write", ![p].snapshot = rec, ![p].attempts = @ + 1]
    /\ last' = NoLast
    /\ UNCHANGED <<env, rec, sub, delivered>>

\* transaction.set(...) and the commit (deputy-auth.js 955-977); the handler
\* answers once addPurchasedCredits has returned.
TxCommit(p) ==
    /\ inv[p].pc = "write"
    /\ IF ~Conflict(p)
         THEN /\ rec' = addPurchasedCredits(rec, inv[p].snapshot, PackSession.reviewCredits,
                                            SESSION_ID, PackSession.customer)
              /\ inv' = [inv EXCEPT ![p].pc = "done"]
              /\ last' = Respond(PackRequest,
                                 Out(rec', sub, "reviewCredits", TRUE, FALSE, FALSE, FALSE))
       ELSE IF inv[p].attempts < MaxAttempts
         THEN /\ inv' = [inv EXCEPT ![p].pc = "read"]
              /\ last' = NoLast
              /\ rec' = rec
       ELSE /\ inv' = [inv EXCEPT ![p].pc = "failed"]
            /\ last' = Respond([PackRequest EXCEPT !.fault = "dbWrite"],
                               Out(rec, sub, "reviewCredits", FALSE, FALSE, TRUE, FALSE))
            /\ rec' = rec
    /\ UNCHANGED <<env, sub, delivered>>

\* The datastore fails the transaction: runTransaction rejects, the catch of
\* addPurchasedCredits returns false (deputy-auth.js 981-984).
TxFail(p) ==
    /\ inv[p].pc \in {"read", "write"}
    /\ inv' = [inv EXCEPT ![p].pc = "failed"]
    /\ last' = Respond([PackRequest EXCEPT !.fault = "dbWrite"],
                       Out(rec, sub, "reviewCredits", FALSE, FALSE, TRUE, FALSE))
    /\ UNCHANGED <<env, rec, sub, delivered>>

InitConcurrent ==
    /\ env \in [stripeKey : {TRUE}, db : {TRUE}, secret : BOOLEAN]
    /\ rec \in {EmptyRec, PackBought}
    /\ sub = NoSub
    /\ inv = [p \in Procs |-> NoInvocation]
    /\ last = NoLast
    /\ delivered = 0

NextConcurrent ==
    \E p \in Procs :
        \/ BeginPack(p)
        \/ TxRead(p)
        \/ TxCommit(p)
        \/ TxFail(p)

SpecConcurrent == InitConcurrent /\ [][NextConcurrent]_vars

\* ----- a renewal beside a credit-pack purchase
\* The subscription and the record of USER after the checkout of a plan was
\* handled: [rec, sub, ...].
Subscriber(productKey) ==
    handleCheckoutComplete(EmptyRec, SubscriptionOf(productKey, USER, TRUE),
                           SessionOf(productKey, USER, CUSTOMER_ID), "none")

\* The invoice-paid event of the subscription's renewal as the dispatch sees it.
RenewalRequest ==
    Request("invoice.paid", "valid", sub.userId, "subscription_cycle", "none", NoEv, 0)

\* exports.handler and handleInvoicePaid down to the call of
\* addSubscriptionCredits (deputy-auth.js 428-458).
BeginRenewal(p) ==
    /\ Configured
    /\ delivered < MaxEvents
    /\ inv[p].pc = "idle"
    /\ sub.exists
    /\ ValidUser(sub.userId)
    /\ Grant(sub.tier, IF sub.billingCycle # NoVal THEN sub.billingCycle ELSE "monthly") > 0
    /\ inv' = [inv EXCEPT ![p] = [NoInvocation EXCEPT
                   !.pc = "renewRead", !.before = Get(rec, "purchasedCredits", 0)]]
    /\ delivered' = delivered + 1
    /\ last' = NoLast
    /\ UNCHANGED <<env, rec, sub>>

\* userRef.get() of addSubscriptionCredits (deputy-auth.js 1069-1071)
RenewalRead(p) ==
    /\ inv[p].pc = "renewRead"
    /\ inv' = [inv EXCEPT ![p].pc = "renewWrite", ![p].snapshot = rec]
    /\ last' = NoLast
    /\ UNCHANGED <<env, rec, sub, delivered>>

\* userRef.set(..., { merge: true }) of addSubscriptionCredits (deputy-auth.js
\* 1073-1091), a plain write outside any transaction; the handler answers once
\* it has returned.
RenewalWrite(p) ==
    /\ inv[p].pc = "renewWrite"
    /\ rec' = addSubscriptionCredits(rec, inv[p].snapshot,
                  Grant(sub.tier, IF sub.billingCycle # NoVal THEN sub.billingCycle
                                  ELSE "monthly"),
                  INVOICE_ID, PERIOD_END)
    /\ inv' = [inv EXCEPT ![p].pc = "renewed"]
    /\ last' = Respond(RenewalRequest, Out(rec', sub, "renewal", TRUE, FALSE, FALSE, FALSE))
    /\ UNCHANGED <<env, sub, delivered>>

\* A subscriber of any plan who has used none or one of the granted credits.
InitInterleaved ==
    /\ env \in [stripeKey : {TRUE}, db : {TRUE}, secret : BOOLEAN]
    /\ \E productKey \in SubscriptionKeys :
        /\ sub = Subscriber(productKey).sub
        /\ rec \in {Subscriber(productKey).rec,
                    MergeSet(Subscriber(productKey).rec, [reviewCreditsUsed |-> MaxUsed])}
    /\ inv = [p \in Procs |-> NoInvocation]
    /\ last = NoLast
    /\ delivered = 0

NextInterleaved ==
    \E p \in Procs :
        \/ BeginPack(p)
        \/ TxRead(p)
        \/ TxCommit(p)
        \/ TxFail(p)
        \/ BeginRenewal(p)
        \/ RenewalRead(p)
        \/ RenewalWrite(p)

SpecInterleaved == InitInterleaved /\ [][NextInterleaved]_vars

\* ------------------------------------------------------------------ claims
\* The user ids a routine does not reconcile.
Unresolvable == {NoVal, "anonymous"}

\* C1: every POST whose event envelope was decoded is answered HTTP 200 with
\* received = true, whichever routine ran and also when the routine threw, a
\* provider lookup failed or the datastore write failed.
C1_AlwaysAcknowledged ==
    last.type \in EventTypes \cup {"other"} => last.http = 200 /\ last.received

\* An invoice-paid event whose subscription retrieval threw, answered 200.
C1_Witness ==
    /\ last.type = "invoice.paid"
    /\ last.fault = "stripeRetrieve"
    /\ last.threw
    /\ last.http = 200

\* C2: with a webhook secret configured, a request whose signature header does
\* not verify is answered HTTP 400 with an error, runs no routine and writes
\* nothing.
C2_BadSignatureRejected ==
    [][(Configured /\ env.secret /\ last'.sig = "invalid")
        => /\ last'.type = "request"
           /\ last'.http = 400
           /\ last'.error
           /\ ~last'.wrote
           /\ rec' = rec
           /\ sub' = sub]_vars

\* A rejected request while the user already has a document.
C2_Witness ==
    /\ last.branch = "badSignature"
    /\ last.sig = "invalid"
    /\ last.http = 400
    /\ rec.exists

\* C3: an event of any of the five types whose metadata user id is absent or
\* 'anonymous' causes no datastore write and is answered HTTP 200.
C3_NoWriteWithoutUser ==
    [][(last'.type \in EventTypes /\ last'.userId \in Unresolvable)
        => /\ rec' = rec
           /\ ~last'.wrote
           /\ last'.http = 200]_vars

\* A subscription-updated event of an anonymous subscription, handled while the
\* real user has a document.
C3_Witness ==
    /\ last.type = "customer.subscription.updated"
    /\ last.userId = "anonymous"
    /\ last.fault = "none"
    /\ last.http = 200
    /\ rec.exists

\* C4: a checkout-completed event of product type 'subscription' with a valid
\* user id, once written, leaves the record active and not cancelling, with
\* tier and billing cycle set, reviewCredits at the table grant, no credits
\* used, and the external subscription id and period end recorded.
C4_AsClaimed ==
    (/\ last.type = "checkout.session.completed"
     /\ last.kind = "subscription"
     /\ last.userId = USER
     /\ last.wrote)
    => /\ rec.subscriptionStatus = "active"
       /\ rec.cancelAtPeriodEnd = FALSE
       /\ rec.tier \in PaidTiers
       /\ rec.billingCycle \in {"monthly", "annual"}
       /\ rec.reviewCredits = Grant(rec.tier, rec.billingCycle)
       /\ rec.reviewCreditsUsed = 0
       /\ rec.stripeSubscriptionId = SUB_ID
       /\ rec.subscriptionPeriodEnd = ToISO(PERIOD_END)

C6_PackAddsToPurchased ==
    [][(/\ last'.type = "checkout.session.completed"
        /\ last'.kind = "reviewCredits"
        /\ last'.userId = USER
        /\ last'.fault = "none")
        => /\ last'.wrote
           /\ "purchasedCredits" \in rec'.has
           /\ rec'.purchasedCredits = Get(rec, "purchasedCredits", 0) + last'.credits
           /\ \A f \in {"subscriptionStatus", "tier", "billingCycle", "reviewCredits"} :
                /\ (f \in rec'.has) = (f \in rec.has)
                /\ rec'[f] = rec[f]]_vars

\* A pack bought on top of earlier packs by a user with an active subscription.
C6_Witness ==
    /\ last.type = "checkout.session.completed"
    /\ last.kind = "reviewCredits"
    /\ last.wrote
    /\ rec.purchasedCredits > last.credits
    /\ rec.subscriptionStatus = "active"

\* The smaller of the purchasedCredits the two invocations started from.
FirstBefore ==
    IF inv[1].before <= inv[2].before THEN inv[1].before ELSE inv[2].before

\* C7: when two checkout-completed events for 1-credit packs of the same user
\* are handled concurrently and both complete, purchasedCredits ends at its
\* initial value plus 2 in every interleaving.
C7_NoLostUpdate ==
    (\A p \in Procs : inv[p].pc = "done")
    => Get(rec, "purchasedCredits", 0) = FirstBefore + 2

\* Both done after the two transactions read the same document and one of
\* them had to run again.
C7_Witness ==
    /\ \A p \in Procs : inv[p].pc = "done"
    /\ inv[1].before = inv[2].before
    /\ \E p \in Procs : inv[p].attempts = MaxAttempts

FailureApplied ==
    /\ last.type = "invoice.payment_failed"
    /\ last.userId = USER
    /\ last.fault = "none"

RenewalApplied ==
    /\ last.type = "invoice.paid"
    /\ last.kind # "subscription_create"
    /\ last.userId = USER
    /\ last.fault = "none"

\* C9: a payment-failed event followed by an invoice-paid (renewal) event of
\* the same subscription takes subscriptionStatus from past_due to active and
\* sets reviewCredits to the renewal grant with reviewCreditsUsed = 0.
C9_FailureThenRenewal ==
    [][(FailureApplied /\ RenewalApplied')
        => /\ rec.subscriptionStatus = "past_due"
           /\ rec'.subscriptionStatus = "active"
           /\ rec'.reviewCredits =
                Grant(sub'.tier,
                      IF sub'.billingCycle = NoVal THEN "monthly" ELSE sub'.billingCycle)
           /\ rec'.reviewCreditsUsed = 0]_vars

\* A renewal applied to a record that a payment failure had marked.
C9_Witness ==
    /\ last.type = "invoice.paid"
    /\ last.wrote
    /\ rec.paymentFailedAt
    /\ rec.subscriptionStatus = "active"
    /\ rec.reviewCredits > 0

\* C10: a subscription-cancelled event with a valid user id sets
\* subscriptionStatus = canceled, tier = free and reviewCredits = 0, sets
\* stripeSubscriptionId to null and leaves stripeCustomerId as it was.
C10_CancelDowngrades ==
    [][(/\ last'.type = "customer.subscription.deleted"
        /\ last'.userId = USER
        /\ last'.fault \notin {"dbRead", "dbWrite"})
        => /\ last'.wrote
           /\ {"subscriptionStatus", "tier", "reviewCredits", "stripeSubscriptionId"}
                \subseteq rec'.has
           /\ rec'.subscriptionStatus = "canceled"
           /\ rec'.tier = "free"
           /\ rec'.reviewCredits = 0
           /\ rec'.stripeSubscriptionId = Null
           /\ ("stripeCustomerId" \in rec'.has) = ("stripeCustomerId" \in rec.has)
           /\ rec'.stripeCustomerId = rec.stripeCustomerId]_vars

\* A cancellation of a subscriber whose customer id is kept.
C10_Witness ==
    /\ last.type = "customer.subscription.deleted"
    /\ last.wrote
    /\ rec.tier = "free"
    /\ rec.stripeSubscriptionId = Null
    /\ rec.stripeCustomerId = CUSTOMER_ID

\* The billing cycle a routine takes from a subscription's metadata:
\* `metadata.billingCycle || 'monthly'`.
ResolvedCycle(s) == IF s.billingCycle = NoVal THEN "monthly" ELSE s.billingCycle

\* A subscription-updated event of the user's subscription, active and not
\* cancelling, handled without a datastore failure for a record that holds a
\* paid tier.
ActiveUpdateOfSubscriber ==
    /\ last'.type = "customer.subscription.updated"
    /\ last'.userId = USER
    /\ last'.status = "active"
    /\ ~last'.cape
    /\ last'.fault \notin {"dbRead", "dbWrite"}
    /\ "tier" \in rec.has
    /\ rec.tier \in PaidTiers

\* The latest entry of the user's transactions.
LatestEntry(doc) == doc.transactions[Len(doc.transactions)]

\* C11: a subscription-updated event, active and not cancelling, whose
\* resolved tier or billing cycle differs from the stored one sets the stored
\* tier and billingCycle to the resolved values, reviewCredits to the table
\* grant of the new tier and cycle, reviewCreditsUsed to 0 and keeps the record
\* active.
C11_PlanSwitchApplied ==
    [][(/\ ActiveUpdateOfSubscriber
        /\ \/ sub'.tier # rec.tier
           \/ ResolvedCycle(sub') # Get(rec, "billingCycle", "monthly"))
        => /\ last'.wrote
           /\ rec'.tier = sub'.tier
           /\ rec'.billingCycle = ResolvedCycle(sub')
           /\ rec'.reviewCredits = Grant(sub'.tier, ResolvedCycle(sub'))
           /\ rec'.reviewCreditsUsed = 0
           /\ rec'.subscriptionStatus = "active"]_vars

\* A plan switch applied to the record of a subscriber.
C11_Witness ==
    /\ last.type = "customer.subscription.updated"
    /\ last.wrote
    /\ Len(rec.transactions) > 1
    /\ LatestEntry(rec).type \in {"plan_upgrade", "plan_downgrade"}
    /\ rec.tier = sub.tier
    /\ rec.billingCycle = sub.billingCycle
    /\ rec.reviewCredits = Grant(rec.tier, rec.billingCycle)
    /\ rec.subscriptionStatus = "active"

\* C12: a plan switch appends exactly one transaction, plan_upgrade when the
\* new plan's credit total is greater than the old plan's and plan_downgrade
\* otherwise, carrying oldCredits and newCredits; pro/monthly switched to
\* business/annual ends with tier business, cycle annual, 600 credits, none
\* used, and a plan_upgrade entry with oldCredits 20 and newCredits 600.
C12_SwitchLogged ==
    [][(/\ ActiveUpdateOfSubscriber
        /\ \/ sub'.tier # rec.tier
           \/ ResolvedCycle(sub') # Get(rec, "billingCycle", "monthly"))
        => LET old == Grant(rec.tier, Get(rec, "billingCycle", "monthly"))
               new == Grant(sub'.tier, ResolvedCycle(sub'))
               e == LatestEntry(rec')
           IN /\ Len(rec'.transactions) = Len(rec.transactions) + 1
              /\ SubSeq(rec'.transactions, 1, Len(rec.transactions)) = rec.transactions
              /\ e.type = IF new > old THEN "plan_upgrade" ELSE "plan_downgrade"
              /\ e.oldCredits = old
              /\ e.newCredits = new
              /\ (/\ rec.tier = "pro"
                  /\ Get(rec, "billingCycle", "monthly") = "monthly"
                  /\ sub'.tier = "business"
                  /\ ResolvedCycle(sub') = "annual")
                 => /\ rec'.tier = "business"
                    /\ rec'.billingCycle = "annual"
                    /\ rec'.reviewCredits = 600
                    /\ rec'.reviewCreditsUsed = 0
                    /\ e.type = "plan_upgrade"
                    /\ e.oldCredits = 20
                    /\ e.newCredits = 600]_vars

\* The record after pro/monthly was switched to business/annual.
C12_Witness ==
    /\ last.type = "customer.subscription.updated"
    /\ last.wrote
    /\ Len(rec.transactions) = 2
    /\ rec.transactions[1].type = "subscription_started"
    /\ rec.transactions[1].tier = "pro"
    /\ rec.transactions[1].credits = 20
    /\ rec.tier = "business"
    /\ rec.billingCycle = "annual"
    /\ rec.reviewCredits = 600
    /\ LatestEntry(rec).type = "plan_upgrade"
    /\ LatestEntry(rec).oldCredits = 20
    /\ LatestEntry(rec).newCredits = 600

\* C13: for every paid tier T, a subscription-updated event that switches a
\* subscription granted on (T, monthly) to (T, annual) leaves reviewCredits at
\* 12 x the monthly grant of T, and the switch back leaves it at the monthly
\* grant of T.
C13_CycleRoundTrip ==
    [][(/\ ActiveUpdateOfSubscriber
        /\ last'.fault = "none"
        /\ TIER_MAPPING[sub.priceKey] = rec.tier)
        => /\ (/\ Get(rec, "billingCycle", "monthly") = "monthly"
               /\ BILLING_CYCLE[sub.priceKey] = "annual")
              => rec'.reviewCredits = 12 * TIER_CREDITS[rec.tier]
           /\ (/\ Get(rec, "billingCycle", "monthly") = "annual"
               /\ BILLING_CYCLE[sub.priceKey] = "monthly")
              => rec'.reviewCredits = TIER_CREDITS[rec.tier]]_vars

\* A business subscription granted monthly, switched to annual and back.
C13_Witness ==
    /\ last.type = "customer.subscription.updated"
    /\ Len(rec.transactions) = 3
    /\ rec.transactions[1].type = "subscription_started"
    /\ rec.transactions[1].credits = TIER_CREDITS["business"]
    /\ rec.transactions[2].type = "plan_upgrade"
    /\ rec.transactions[2].newCredits = 12 * TIER_CREDITS["business"]
    /\ rec.transactions[3].type = "plan_downgrade"
    /\ rec.tier = "business"
    /\ rec.billingCycle = "monthly"
    /\ rec.reviewCredits = TIER_CREDITS["business"]

\* A checkout-completed event of a subscription, written for the user.
CheckoutApplied ==
    /\ last.type = "checkout.session.completed"
    /\ last.kind = "subscription"
    /\ last.userId = USER
    /\ last.wrote

ReplayFields ==
    {"tier", "billingCycle", "subscriptionStatus", "reviewCredits", "purchasedCredits"}

\* The step handles the event the step before it handled, and no call fails
\* in either.
SameEventAgain ==
    /\ last.type \in EventTypes
    /\ last'.type = last.type
    /\ last'.sig = last.sig
    /\ last'.userId = last.userId
    /\ last'.kind = last.kind
    /\ last'.status = last.status
    /\ last'.cape = last.cape
    /\ last'.credits = last.credits
    /\ last.fault = "none"
    /\ last'.fault = "none"

\* C15: every routine is idempotent per event: handling the same event twice
\* in a row leaves tier, billingCycle, subscriptionStatus, reviewCredits and
\* purchasedCredits as they were after the first handling, the credit-pack
\* branch of checkout completed included.
C15_AsClaimed ==
    [][SameEventAgain
        => \A f \in ReplayFields :
             /\ (f \in rec'.has) = (f \in rec.has)
             /\ rec'[f] = rec[f]]_vars

\* The external subscription id of a record (null where none is stored) and
\* its tier (`tier || 'free'`).
ExternalSubscriptionId(doc) == Get(doc, "stripeSubscriptionId", Null)

StoredTier(doc) == Get(doc, "tier", "free")

\* C16: in every reachable state of a user's record exactly one holds: (a) the
\* record has a subscription (a paid tier) with a non-null external
\* subscription id, or (b) its tier is free and the external subscription id
\* is null; also when the subscription lookup during checkout fails.
C16_AsClaimed ==
    rec.exists
    => LET a == StoredTier(rec) \in PaidTiers /\ ExternalSubscriptionId(rec) # Null
           b == StoredTier(rec) = "free" /\ ExternalSubscriptionId(rec) = Null
       IN a # b

\* C17: every routine execution that changes the user's entitlement state
\* (activation, credit pack, renewal, payment failure, cancellation, scheduled
\* cancellation, reactivation, plan switch, past_due/unpaid) appends exactly
\* one record to the user's transactions before the handler answers.
C17_AsClaimed ==
    [][(last'.type \in EventTypes /\ last'.wrote)
        => Len(rec'.transactions) = Len(rec.transactions) + 1]_vars

\* C18: the transactions of a user are append-only: the sequence before a
\* routine is a prefix of the sequence after it.
C18_AppendOnly ==
    [][/\ Len(rec'.transactions) >= Len(rec.transactions)
       /\ SubSeq(rec'.transactions, 1, Len(rec.transactions)) = rec.transactions]_vars

\* A plan switch logged after the activation and a credit pack.
C18_Witness ==
    /\ last.type = "customer.subscription.updated"
    /\ last.wrote
    /\ Len(rec.transactions) = 3
    /\ {rec.transactions[1].type, rec.transactions[2].type}
         = {"subscription_started", "credit_pack"}
    /\ rec.transactions[3].type \in {"plan_upgrade", "plan_downgrade"}

\* purchasedCredits as the application reads it: `purchasedCredits || 0`.
Purchased(doc) == Get(doc, "purchasedCredits", 0)

\* C19: handled one at a time, activation, renewal, plan switch, payment
\* failure, scheduled cancellation, reactivation and terminal cancellation
\* leave purchasedCredits as it was; only a credit-pack checkout changes it,
\* and only upward.
C19_PurchasedIndependent ==
    [][last'.type \in EventTypes
        => IF last'.type = "checkout.session.completed" /\ last'.kind = "reviewCredits"
             THEN Purchased(rec') >= Purchased(rec)
             ELSE Purchased(rec') = Purchased(rec)]_vars

\* An activation applied to the record of a user who had bought a pack.
C19_Witness ==
    /\ last.type = "checkout.session.completed"
    /\ last.kind = "subscription"
    /\ last.wrote
    /\ Len(rec.transactions) = 2
    /\ rec.transactions[1].type = "credit_pack"
    /\ rec.purchasedCredits = 1
    /\ rec.subscriptionStatus = "active"

\* C20: when a renewal (reviewCredits, status) and a credit-pack purchase
\* (purchasedCredits) of the same user run concurrently, the final record
\* holds both routines' changes in every interleaving of their reads and
\* writes: neither write reverts a field the other changed.
C20_AsClaimed ==
    \A p, q \in Procs :
        (inv[p].pc = "done" /\ inv[q].pc = "renewed")
        => /\ Purchased(rec) = inv[p].before + PackSession.reviewCredits
           /\ rec.reviewCredits = Grant(sub.tier, ResolvedCycle(sub))
           /\ rec.reviewCreditsUsed = 0
           /\ rec.subscriptionStatus = "active"

\* ------------------------------------------------------------------ C21..C30
\* A subscription-updated event of the user's subscription handled with every
\* call succeeding.
UpdateOfSubscriber ==
    /\ last'.type = "customer.subscription.updated"
    /\ last'.userId = USER
    /\ last'.fault = "none"

\* The tier the event's price names: its metadata first, then its product's
\* metadata, then its amount in the table of its interval; NoVal when none of
\* the three names one.
NamedTier ==
    IF last'.priceMeta # NoVal THEN last'.priceMeta
    ELSE IF last'.productMeta # NoVal THEN last'.productMeta
    ELSE AmountTier(IntervalOf(sub.priceKey), last'.amount)

\* C21: tier detection on a subscription-updated event takes the first match
\* of price metadata, product metadata and the amount table of the price's
\* interval, and the routine works with that tier (it is what the subscription
\* carries afterwards and what a plan switch stores); when none of the three
\* matches the subscription keeps the tier it had, and the stored tier stays
\* what it was or becomes the subscription's tier, never a default.
C21_DetectionOrder ==
    [][UpdateOfSubscriber
        => /\ NamedTier # NoVal => sub'.tier = NamedTier
           /\ NamedTier = NoVal => sub'.tier = sub.tier
           /\ "tier" \in rec.has
                => /\ "tier" \in rec'.has
                   /\ rec'.tier \in {rec.tier, sub'.tier}
           /\ (/\ last'.status = "active" /\ ~last'.cape
               /\ "tier" \in rec.has /\ rec.tier \in PaidTiers)
                => rec'.tier = sub'.tier]_vars

\* A price of 99.00 a month whose metadata says starter and whose product's
\* metadata says pro has moved a pro subscriber to starter.
C21_Witness ==
    /\ last.type = "customer.subscription.updated"
    /\ last.fault = "none"
    /\ last.priceMeta = "starter"
    /\ last.productMeta = "pro"
    /\ last.amount = 9900
    /\ last.branch = "planSwitch"
    /\ sub.tier = "starter"
    /\ rec.tier = "starter"
    /\ LatestEntry(rec).oldCredits = Grant("pro", "monthly")

\* The fields of the credits map that say what the user is entitled to.
Entitlement == {"tier", "billingCycle", "reviewCredits", "reviewCreditsUsed", "purchasedCredits"}

\* The step leaves the fields of `fields` as they were, missing ones missing.
Untouched(fields) ==
    \A f \in fields : /\ (f \in rec'.has) = (f \in rec.has)
                      /\ rec'[f] = rec[f]

\* C22: a payment-failed event for an existing subscription with a valid user
\* id sets subscriptionStatus to past_due and records a failure timestamp, and
\* leaves tier, billingCycle, reviewCredits, reviewCreditsUsed and
\* purchasedCredits unchanged.
C22_PaymentFailedFrame ==
    [][(/\ last'.type = "invoice.payment_failed"
        /\ last'.userId = USER
        /\ last'.fault = "none")
        => /\ last'.wrote
           /\ "subscriptionStatus" \in rec'.has
           /\ rec'.subscriptionStatus = "past_due"
           /\ "paymentFailedAt" \in rec'.has
           /\ rec'.paymentFailedAt
           /\ Untouched(Entitlement)]_vars

\* A payment failure marked on the record of a subscriber who has used a
\* credit.
C22_Witness ==
    /\ last.type = "invoice.payment_failed"
    /\ last.fault = "none"
    /\ last.wrote
    /\ rec.subscriptionStatus = "past_due"
    /\ rec.paymentFailedAt
    /\ rec.tier \in PaidTiers
    /\ rec.reviewCreditsUsed = 1
    /\ rec.reviewCredits = Grant(rec.tier, rec.billingCycle)

\* C23: a subscription-updated event with cancel_at_period_end = true for an
\* active subscription sets subscriptionStatus to canceling and
\* cancelAtPeriodEnd to true and records the scheduled end date, and leaves
\* tier, billingCycle, reviewCredits and reviewCreditsUsed unchanged.
C23_CancelScheduledFrame ==
    [][(/\ last'.type = "customer.subscription.updated"
        /\ last'.userId = USER
        /\ last'.status = "active"
        /\ last'.cape
        /\ last'.fault # "dbWrite")
        => /\ last'.wrote
           /\ {"subscriptionStatus", "cancelAtPeriodEnd", "subscriptionPeriodEnd"}
                \subseteq rec'.has
           /\ rec'.subscriptionStatus = "canceling"
           /\ rec'.cancelAtPeriodEnd
           /\ rec'.subscriptionPeriodEnd = PERIOD_END * 1000
           /\ rec'.subscriptionPeriodEnd # NullDate
           /\ Untouched({"tier", "billingCycle", "reviewCredits", "reviewCreditsUsed"})]_vars

\* A scheduled cancellation marked on the record of a subscriber who has used
\* a credit.
C23_Witness ==
    /\ last.type = "customer.subscription.updated"
    /\ last.status = "active"
    /\ last.cape
    /\ last.wrote
    /\ rec.subscriptionStatus = "canceling"
    /\ rec.cancelAtPeriodEnd
    /\ rec.subscriptionPeriodEnd = PERIOD_END * 1000
    /\ rec.tier \in PaidTiers
    /\ rec.reviewCreditsUsed = 1
    /\ rec.reviewCredits = Grant(rec.tier, rec.billingCycle)

\* A subscription-updated event, active and not cancelling, handled without a
\* datastore failure while the stored record is canceling.
ReactivationOfSubscriber ==
    /\ last'.type = "customer.subscription.updated"
    /\ last'.userId = USER
    /\ last'.status = "active"
    /\ ~last'.cape
    /\ last'.fault \notin {"dbRead", "dbWrite"}
    /\ "cancelAtPeriodEnd" \in rec.has
    /\ rec.cancelAtPeriodEnd

\* The step ends with the record active and no cancellation scheduled.
Reactivated ==
    /\ last'.wrote
    /\ rec'.subscriptionStatus = "active"
    /\ "cancelAtPeriodEnd" \in rec'.has
    /\ ~rec'.cancelAtPeriodEnd

C25_AsClaimed ==
    [][(/\ last'.type = "customer.subscription.updated"
        /\ last'.userId = USER
        /\ last'.status \in {"past_due", "unpaid"}
        /\ last'.fault = "none")
        => /\ "subscriptionStatus" \in rec'.has
           /\ rec'.subscriptionStatus = last'.status
           /\ Untouched({"reviewCredits"})]_vars

\* C26 as stated: the user's record comes into existence only by a
\* checkout-completed event of that user that is applied, never by another
\* event, and a record that exists is never deleted.
C26_AsClaimed ==
    [][/\ (~rec.exists /\ rec'.exists)
            => /\ last'.type = "checkout.session.completed"
               /\ last'.userId = USER
               /\ last'.wrote
       /\ rec.exists => rec'.exists]_vars

\* An event of the user that makes its routine write when no call fails: a
\* completed checkout, a renewal invoice, a scheduled cancellation.
WritingEvent ==
    /\ last'.userId = USER
    /\ \/ last'.type = "checkout.session.completed"
       \/ last'.type = "invoice.paid" /\ last'.kind # "subscription_create"
       \/ last'.type = "customer.subscription.updated" /\ last'.cape

\* C27 as stated: when a secondary provider call (subscription or price
\* retrieval, metadata update) fails inside a routine, the routine does not
\* abort and the datastore write of the event still happens.
C27_AsClaimed ==
    [][(WritingEvent /\ last'.fault \in {"stripeRetrieve", "stripeUpdate"})
        => /\ last'.wrote
           /\ ~last'.threw]_vars

\* C28: a failure of the cancellation notification (the customer lookup, the
\* email service) never prevents reconciliation: after a subscription-
\* cancelled event with a valid user id the record is free and canceled.
C28_NotificationNotFatal ==
    (/\ last.type = "customer.subscription.deleted"
     /\ last.userId = USER
     /\ last.fault \in {"stripeCustomer", "email"})
        => /\ last.wrote
           /\ ~last.threw
           /\ rec.exists
           /\ rec.tier = "free"
           /\ rec.subscriptionStatus = "canceled"
           /\ rec.reviewCredits = 0

\* A subscriber downgraded by a cancellation whose email could not be sent.
C28_Witness ==
    /\ last.type = "customer.subscription.deleted"
    /\ last.userId = USER
    /\ last.fault = "email"
    /\ last.wrote
    /\ rec.tier = "free"
    /\ rec.subscriptionStatus = "canceled"
    /\ Len(rec.transactions) = 2
    /\ rec.transactions[1].type = "subscription_started"

\* C29 as stated: a body that cannot be decoded into an event envelope (not
\* JSON, or the JSON value null) is answered 400 with an error and without a
\* datastore write; the handler never fails with an uncaught exception.
C29_AsClaimed ==
    last.branch \in {"malformed", "uncaught"}
        => /\ last.http = 400
           /\ last.error
           /\ ~last.wrote

\* C30: an invoice-paid event whose billing_reason is subscription_create
\* performs no datastore write and no provider call: the record and the
\* subscription are what they were, and a provider or datastore that would
\* fail does not make the routine fail.
C30_InitialInvoiceSkipped ==
    [][(/\ last'.type = "invoice.paid"
        /\ last'.kind = "subscription_create")
        => /\ rec' = rec
           /\ sub' = sub
           /\ ~last'.wrote
           /\ ~last'.threw
           /\ last'.http = 200]_vars

\* The first invoice of a subscriber who has already used a credit of the
\* checkout grant, handled while the provider would not answer.
C30_Witness ==
    /\ last.type = "invoice.paid"
    /\ last.kind = "subscription_create"
    /\ last.userId = USER
    /\ last.fault = "stripeRetrieve"
    /\ ~last.wrote
    /\ rec.subscriptionStatus = "active"
    /\ rec.reviewCreditsUsed = 1
    /\ rec.reviewCredits = Grant(rec.tier, rec.billingCycle)
    /\ Len(rec.transactions) = 1

\* ------------------------------------------------------------------ C31..C40
\* The step appends exactly one entry, of the given type, to the transactions.
AppendsOne(type) ==
    /\ Len(rec'.transactions) = Len(rec.transactions) + 1
    /\ SubSeq(rec'.transactions, 1, Len(rec.transactions)) = rec.transactions
    /\ LatestEntry(rec').type = type

\* C31: a checkout-completed event of product type consultation with a valid
\* user id appends one log-only transaction (no tier, no credits) and leaves
\* subscriptionStatus, tier, reviewCredits and purchasedCredits, and every
\* other field of the credits map, unchanged.
C31_ConsultationLogOnly ==
    [][(/\ last'.type = "checkout.session.completed"
        /\ last'.kind = "consultation"
        /\ last'.userId = USER
        /\ last'.fault \notin {"dbRead", "dbWrite"})
        => /\ last'.wrote
           /\ AppendsOne("consultation")
           /\ LatestEntry(rec') = Entry("consultation", NoVal, 0, 0, 0)
           /\ rec'.has = rec.has
           /\ Untouched(CreditFields)]_vars

\* A consultation logged on the record of a subscriber who bought a credit
\* pack.
C31_Witness ==
    /\ last.type = "checkout.session.completed"
    /\ last.kind = "consultation"
    /\ last.wrote
    /\ LatestEntry(rec).type = "consultation"
    /\ rec.subscriptionStatus = "active"
    /\ rec.tier \in PaidTiers
    /\ rec.reviewCredits = Grant(rec.tier, rec.billingCycle)
    /\ rec.purchasedCredits > 0

\* C32: an event whose type is none of the five handled types is accepted:
\* the handler changes no record, changes nothing at the provider and answers
\* 200 with received = true and no error.
C32_UnknownTypeAccepted ==
    [][last'.type \notin EventTypes \cup {"none", "request"}
        => /\ rec' = rec
           /\ sub' = sub
           /\ ~last'.wrote
           /\ ~last'.threw
           /\ last'.http = 200
           /\ last'.received
           /\ ~last'.error]_vars

\* An event of an unknown type accepted while the user holds an active
\* subscription record.
C32_Witness ==
    /\ last.type = "other"
    /\ last.branch = "unhandled"
    /\ last.http = 200
    /\ last.received
    /\ rec.exists
    /\ rec.subscriptionStatus = "active"
    /\ rec.tier \in PaidTiers

\* The record as a terminal cancellation leaves it.
Cancelled(doc) ==
    /\ doc.exists
    /\ doc.tier = "free"
    /\ doc.subscriptionStatus = "canceled"
    /\ doc.reviewCredits = 0

\* C33 as stated: once a cancellation has been applied, every later
\* invoice-paid, payment-failed or subscription-updated event of the cancelled
\* subscription leaves the record free, canceled and with no review credits.
C33_AsClaimed ==
    [][(/\ Cancelled(rec)
        /\ last'.type \in {"invoice.paid", "invoice.payment_failed",
                           "customer.subscription.updated"}
        /\ last'.userId = USER)
        => Cancelled(rec')]_vars

\* C34 as stated: with a webhook secret configured, every event that reaches
\* a reconciliation routine carried a signature that verified; a request
\* without a signature header is not processed.
C34_AsClaimed ==
    (env.secret /\ last.type \in EventTypes) => last.sig = "valid"

\* C35 as stated, for a record that holds a paid tier: in the state that
\* follows an activation, a renewal or a plan switch that was written,
\* reviewCredits is the table grant of the tier and billing cycle stored in
\* the same record.
C35_AsClaimed ==
    (/\ last.wrote
     /\ last.branch \in {"subscription", "renewal", "planSwitch"}
     /\ "tier" \in rec.has
     /\ rec.tier \in PaidTiers)
        => rec.reviewCredits = Grant(rec.tier, Get(rec, "billingCycle", "monthly"))

\* C36: a subscription-updated event never grants review credits to a user
\* whose stored tier is free or who has no record: it leaves tier and
\* reviewCredits (and reviewCreditsUsed and purchasedCredits) as they were and
\* appends no transaction, whatever the event's status, cancel_at_period_end
\* and price.
C36_NoGrantWithoutPaidTier ==
    [][(/\ last'.type = "customer.subscription.updated"
        /\ Get(rec, "tier", "free") = "free")
        => /\ Untouched({"tier", "reviewCredits", "reviewCreditsUsed", "purchasedCredits"})
           /\ rec'.transactions = rec.transactions
           /\ last'.branch # "planSwitch"]_vars

\* An update of an active subscription, with a price of another plan, handled
\* after the cancellation had downgraded the user.
C36_Witness ==
    /\ last.type = "customer.subscription.updated"
    /\ last.userId = USER
    /\ last.status = "active"
    /\ ~last.cape
    /\ last.fault = "none"
    /\ sub.priceKey # sub.productKey
    /\ rec.exists
    /\ rec.tier = "free"
    /\ rec.reviewCredits = 0
    /\ LatestEntry(rec).type = "subscription_cancelled"

\* The branches whose write appends a transaction, and the entry types they
\* append.
EntryTypes(branch) ==
    CASE branch = "subscription" -> {"subscription_started"}
      [] branch = "reviewCredits" -> {"credit_pack"}
      [] branch = "consultation" -> {"consultation"}
      [] branch = "renewal" -> {"subscription_renewal"}
      [] branch = "cancelled" -> {"subscription_cancelled"}
      [] branch = "planSwitch" -> {"plan_upgrade", "plan_downgrade"}
      [] OTHER -> {}

\* The field change that goes with the entry of a branch.
FieldsOf(branch) ==
    CASE branch \in {"subscription", "renewal", "planSwitch"} ->
            /\ rec'.subscriptionStatus = "active"
            /\ rec'.reviewCreditsUsed = 0
            /\ rec'.reviewCredits = LatestEntry(rec').credits + LatestEntry(rec').newCredits
      [] branch = "reviewCredits" ->
            rec'.purchasedCredits = Get(rec, "purchasedCredits", 0) + last'.credits
      [] branch = "cancelled" ->
            rec'.subscriptionStatus = "canceled" /\ rec'.tier = "free"
      [] OTHER -> TRUE

\* C37: a handled event is one write or none: a step whose write was not
\* applied leaves the record as it was; a write of a routine that logs a
\* transaction appends exactly one entry of its type together with its field
\* changes; every other write leaves the transactions as they were.
C37_OneWritePerEvent ==
    [][last'.type \in EventTypes
        => /\ ~last'.wrote => rec' = rec
           /\ (last'.wrote /\ EntryTypes(last'.branch) # {})
                => /\ Len(rec'.transactions) = Len(rec.transactions) + 1
                   /\ SubSeq(rec'.transactions, 1, Len(rec.transactions)) = rec.transactions
                   /\ LatestEntry(rec').type \in EntryTypes(last'.branch)
                   /\ FieldsOf(last'.branch)
           /\ (last'.wrote /\ EntryTypes(last'.branch) = {})
                => rec'.transactions = rec.transactions]_vars

\* An activation written with its entry and its fields, after an earlier event
\* that appended nothing.
C37_Witness ==
    /\ last.type = "checkout.session.completed"
    /\ last.branch = "subscription"
    /\ last.wrote
    /\ delivered > 1
    /\ Len(rec.transactions) = 1
    /\ LatestEntry(rec).type = "subscription_started"
    /\ rec.reviewCredits = LatestEntry(rec).credits
    /\ rec.subscriptionStatus = "active"

\* C38: while the payment secret key or the datastore client is missing, every
\* POST is answered 200 with received = true and an error, whatever its
\* signature header; no routine runs and nothing is written; a request that is
\* no POST is answered 405 and nothing else happens.
C38_NotConfigured ==
    [][/\ (~env.stripeKey \/ ~env.db)
            => /\ rec' = rec
               /\ last'.type \in {"none", "request"}
               /\ last'.type = "request"
                    => /\ last'.branch \in {"notConfigured", "notPost"}
                       /\ ~last'.wrote
                       /\ sub' = sub
               /\ last'.branch = "notConfigured"
                    => /\ last'.http = 200
                       /\ last'.received
                       /\ last'.error
       /\ (last'.type = "request" /\ last'.branch = "notPost")
            => /\ last'.http = 405
               /\ ~last'.received
               /\ ~last'.wrote
               /\ rec' = rec
               /\ sub' = sub]_vars

\* A POST with a signature that would not verify, answered 200 with an error
\* because the datastore client is missing.
C38_Witness ==
    /\ env.stripeKey
    /\ ~env.db
    /\ env.secret
    /\ last.type = "request"
    /\ last.branch = "notConfigured"
    /\ last.sig = "invalid"
    /\ last.http = 200
    /\ last.received
    /\ last.error
    /\ sub.exists
    /\ ~rec.exists

\* C39: the cancellation notice is marked refund-eligible exactly when the
\* time between the subscription's creation and the handling of the
\* cancellation is at most 14 days (1,209,600,000 ms, the boundary included),
\* and its days-active is the number of whole days of that time.
C39_RefundWindow ==
    last.type = "customer.subscription.deleted"
        => LET elapsed == last.now - last.created * 1000
               days == last.daysSinceSubscription
           IN /\ last.isRefundEligible = (elapsed <= 14 * 24 * 60 * 60 * 1000)
              /\ days * 86400000 <= elapsed
              /\ elapsed < (days + 1) * 86400000

\* A cancellation handled exactly 14 days after the subscription was created:
\* still eligible, 14 days active.
C39_Witness ==
    /\ last.type = "customer.subscription.deleted"
    /\ last.now - last.created * 1000 = 1209600000
    /\ last.isRefundEligible
    /\ last.daysSinceSubscription = 14
    /\ last.wrote

\* C40: a session and a subscription created by a checkout without a user id
\* carry the user id 'anonymous', never an absent one, and every event of
\* such a session or subscription (checkout completed, invoice paid, payment
\* failed, subscription updated, subscription cancelled) leaves the datastore
\* as it was.
C40_AnonymousNeverWritten ==
    [][/\ (sub'.exists /\ sub'.productKey # NoVal) => sub'.userId \in {USER, "anonymous"}
       /\ (last'.type = "checkout.session.completed" /\ last'.kind # NoVal)
            => last'.userId \in {USER, "anonymous"}
       /\ (last'.type \in EventTypes /\ last'.userId = "anonymous")
            => /\ rec' = rec
               /\ ~last'.wrote
               /\ last'.http = 200]_vars

\* A renewal invoice of an anonymous subscription, handled with every call
\* succeeding after an earlier event, and still no record.
C40_Witness ==
    /\ last.type = "invoice.paid"
    /\ last.kind = "subscription_cycle"
    /\ last.userId = "anonymous"
    /\ last.fault = "none"
    /\ ~last.wrote
    /\ sub.exists
    /\ sub.userId = "anonymous"
    /\ delivered > 1
    /\ ~rec.exists

====
